---------------------------- MODULE Spec2Model ----------------------------
(***************************************************************************)
(* A model of sphinxcontrib/mat_types.py: the MATLAB function and class    *)
(* parsers that work on a Pygments token list, the namespace resolver      *)
(* (MatObject.matlabify), the module registry (sys.modules), the base      *)
(* class resolver (MatClass.__bases__) and the analyzer cache              *)
(* (MatModuleAnalyzer).                                                    *)
(*                                                                         *)
(* A token is a record [k |-> kind, v |-> text].  A text is a sequence of  *)
(* atoms: every character the code treats specially (blank, tab, newline,  *)
(* comma, brackets, the comment marker) is an atom of its own, and a run   *)
(* of ordinary characters (an identifier, a keyword) is one atom.  The     *)
(* kind "Whitespace" is Token.Text.Whitespace, which `is not` Token.Text.  *)
(***************************************************************************)
EXTENDS Integers, Sequences, FiniteSets, TLC

VARIABLES
    src,        \* the declaration the token list was written from
    tokens,     \* the token list handed to the parser
    fn,         \* the MatFunction / MatMethod under construction or built
    cp,         \* the MatClass parse: cursor, position in __init__, fields
    heap,       \* every object constructed so far, by identity
    sysModules, \* sys.modules: name -> identity of a MatModule
    cache,      \* MatModuleAnalyzer.cache
    last,       \* the last operation called and what it returned or raised
    hist        \* what each operation returned the first time it was called

vars == <<src, tokens, fn, cp, heap, sysModules, cache, last, hist>>

-----------------------------------------------------------------------------
(* Texts and tokens *)

SP == " "
TAB == "\t"
NL == "\n"

Tk(k, v) == [k |-> k, v |-> v]
Kw(w) == Tk("Keyword", <<w>>)
Punct(c) == Tk("Punctuation", <<c>>)
Txt(c) == Tk("Text", <<c>>)
NoTk == Tk("", <<>>)

\* Optional values: Python's None and a bound value
None == [some |-> FALSE, val |-> <<>>]
Some(x) == [some |-> TRUE, val |-> x]

RECURSIVE LStrip(_, _)
\* str.lstrip(chars)
LStrip(s, cs) ==
    IF s # <<>> /\ Head(s) \in cs THEN LStrip(Tail(s), cs) ELSE s

RECURSIVE RStrip(_, _)
\* str.rstrip(chars)
RStrip(s, cs) ==
    IF s # <<>> /\ s[Len(s)] \in cs
    THEN RStrip(SubSeq(s, 1, Len(s) - 1), cs) ELSE s

\* str.strip(chars)
StripChars(s, cs) == RStrip(LStrip(s, cs), cs)

WhiteChars == {SP, TAB, NL}

\* str.strip()
Strip(s) == StripChars(s, WhiteChars)

RECURSIVE SplitAt(_, _, _)
\* str.split(sep): the pieces between the separators, cur being the piece
\* collected so far; a text without separator gives one piece
SplitAt(s, sep, cur) ==
    IF s = <<>> THEN <<cur>>
    ELSE IF Head(s) = sep THEN <<cur>> \o SplitAt(Tail(s), sep, <<>>)
    ELSE SplitAt(Tail(s), sep, Append(cur, Head(s)))

Split(s, sep) == SplitAt(s, sep, <<>>)

\* [x.strip() for x in text.split(',')]
SplitNames(s) == LET p == Split(s, ",") IN [i \in 1..Len(p) |-> Strip(p[i])]

RECURSIVE Flatten(_)
\* the concatenation of a list of texts or of token lists (repeated +=)
Flatten(ss) == IF ss = <<>> THEN <<>> ELSE Head(ss) \o Flatten(Tail(ss))

\* dict: a function from keys to values; d[k] = v
DictSet(d, k, v) ==
    [x \in (DOMAIN d) \cup {k} |-> IF x = k THEN v ELSE d[x]]

EmptyDict == <<>>

RECURSIVE Reverse(_)
\* list.reverse()
Reverse(s) == IF s = <<>> THEN <<>> ELSE Append(Reverse(Tail(s)), Head(s))

-----------------------------------------------------------------------------
(* MatFunction.__init__: the function parser *)

\* The errors the parsers raise, by exception type and message
NotAFunction == "TypeError: Object is not a function. Expected a function."
NoBlankAfterKeyword == "TypeError: Expected a whitespace after function keyword."
BadPunctuation == "TypeError: Token after outputs should be Punctuation."
UnexpectedName == "Exception: Unexpected function name"
NoBlankAfterArgs == "TypeError: Expected a whitespace after input args."
IndexError == "IndexError"

\* MATLAB keywords that increment the keyword-end pair count
mat_kws == {Kw("if"), Kw("while"), Kw("for"), Kw("switch"), Kw("try")}

\* (a scan that takes only `(` to open an index)
IndexOpenersParenOnly == {Punct("(")}

\* The tokens before an `end` that make it an index, not a block end
IndexOpeners == {Punct(":"), Punct("(")}

Raise(s, e) == [s EXCEPT !.err = e]

\* The object as the attribute assignments of __init__ leave it, before any
\* token is popped; i is the place in the list of the next token popped
FnNew(name) ==
    [err |-> "", i |-> 1, name |-> name, retv |-> None, args |-> None,
     docstring |-> <<>>, rem |-> None]

\* check function keyword, skip blanks and tabs
FnKeyword(tks, s) ==
    IF s.i > Len(tks) THEN Raise(s, IndexError)
    ELSE IF tks[s.i].k # "Keyword" \/ Strip(tks[s.i].v) # <<"function">>
    THEN Raise(s, NotAFunction)
    ELSE IF s.i + 1 > Len(tks) THEN Raise(s, IndexError)
    ELSE IF tks[s.i + 1].k # "Whitespace" THEN Raise(s, NoBlankAfterKeyword)
    ELSE [s EXCEPT !.i = s.i + 2]

\* output args: the token popped is kept only when it is a Text
FnOutputs(tks, s) ==
    IF s.err # "" THEN s
    ELSE IF s.i > Len(tks) THEN Raise(s, IndexError)
    ELSE IF tks[s.i].k # "Text" THEN [s EXCEPT !.i = s.i + 1]
    ELSE LET t == [s EXCEPT !.retv =
                       Some(SplitNames(StripChars(tks[s.i].v, {"[", SP, "]"})))]
         IN IF s.i + 1 > Len(tks) THEN Raise(t, IndexError)
            ELSE IF tks[s.i + 1] # Punct("=") THEN Raise(t, BadPunctuation)
            ELSE IF s.i + 2 > Len(tks) THEN Raise(t, IndexError)
            ELSE IF tks[s.i + 2].k # "Whitespace"
                 THEN [t EXCEPT !.i = s.i + 2]  \* put it back in list
                 ELSE [t EXCEPT !.i = s.i + 3]

\* function name
FnName(tks, isMethod, s) ==
    IF s.err # "" THEN s
    ELSE IF s.i > Len(tks) THEN Raise(s, IndexError)
    ELSE IF s.name.some /\ tks[s.i] = Tk("NameFunction", s.name.val)
    THEN [s EXCEPT !.i = s.i + 1]
    ELSE IF isMethod
    THEN [s EXCEPT !.i = s.i + 1, !.name = Some(tks[s.i].v)]
    ELSE Raise(s, UnexpectedName)

\* input args, skip blanks and tabs
FnInputs(tks, s) ==
    IF s.err # "" THEN s
    ELSE IF s.i > Len(tks) THEN Raise(s, IndexError)
    ELSE LET t ==
             IF tks[s.i] # Punct("(") THEN [s EXCEPT !.i = s.i + 1]
             ELSE IF s.i + 1 > Len(tks) THEN Raise(s, IndexError)
             ELSE LET u == IF tks[s.i + 1].k = "Text"
                           THEN [s EXCEPT !.args =
                                     Some(SplitNames(tks[s.i + 1].v))]
                           ELSE s
                  IN IF s.i + 2 > Len(tks) THEN Raise(u, IndexError)
                     ELSE IF tks[s.i + 2] # Punct(")")
                     THEN Raise(u, BadPunctuation)
                     ELSE [u EXCEPT !.i = s.i + 3]
         IN IF t.err # "" THEN t
            ELSE IF t.i > Len(tks) THEN Raise(t, IndexError)
            ELSE IF tks[t.i].k # "Whitespace" THEN Raise(t, NoBlankAfterArgs)
            ELSE [t EXCEPT !.i = t.i + 1]

RECURSIVE SkipWht(_, _)
\* while wht in [(Text, ' '), (Text, '\t'), (Text, '\n')]: wht = tks.pop()
\* the place of the first token from j that is not one of them, or past
\* the end of the list when the pop fails
SkipWht(tks, j) ==
    IF j > Len(tks) THEN j
    ELSE IF tks[j] \in {Txt(SP), Txt(TAB), Txt(NL)} THEN SkipWht(tks, j + 1)
    ELSE j

RECURSIVE FnDocLoop(_, _)
\* docstring: s.i is the place of the token held in `docstring`
FnDocLoop(tks, s) ==
    IF tks[s.i].k # "Comment" THEN s
    ELSE LET d == s.docstring \o LStrip(tks[s.i].v, {"%"}) \o <<NL>>
             j == SkipWht(tks, s.i + 1)
         IN IF j > Len(tks)
            THEN Raise([s EXCEPT !.docstring = d], IndexError)
            ELSE FnDocLoop(tks, [s EXCEPT !.docstring = d, !.i = j])

FnDocstring(tks, s) ==
    IF s.err # "" THEN s
    ELSE IF s.i > Len(tks) THEN Raise(s, IndexError)
    ELSE FnDocLoop(tks, s)

\* The keyword-end pair count after the token kw, lastkw being the token
\* before it
KwEndAfter(kw, lastkw, kw_end) ==
    IF kw \in mat_kws THEN kw_end + 1
    ELSE IF kw = Kw("end")
    THEN IF lastkw \notin IndexOpeners THEN kw_end - 1 ELSE kw_end
    ELSE kw_end

RECURSIVE FnBodyLoop(_, _, _, _)
\* main body: the loop entered with kw_end > 0 and kw the token at j; the
\* place of the token that is put back in the list when the loop ends
FnBodyLoop(tks, j, lastkw, kw_end) ==
    LET c == KwEndAfter(tks[j], lastkw, kw_end)
    IN IF j + 1 > Len(tks) THEN j           \* IndexError: break
       ELSE IF c > 0 THEN FnBodyLoop(tks, j + 1, tks[j], c)
       ELSE j + 1

\* main body, and the tokens left, as the reversed list holds them
FnBody(tks, s) ==
    IF s.err # "" THEN s
    ELSE LET j == FnBodyLoop(tks, s.i, NoTk, 1)
         IN [s EXCEPT !.i = j,
                      !.rem = Some(Reverse(SubSeq(tks, j, Len(tks))))]

\* MatFunction.__init__ as a whole
MatFunction(name, isMethod, tks) ==
    FnBody(tks,
      FnDocstring(tks,
        FnInputs(tks,
          FnName(tks, isMethod,
            FnOutputs(tks,
              FnKeyword(tks, FnNew(name)))))))

\* MatMethod.__init__: a function parse with no name given
MatMethod(tks) == MatFunction(None, TRUE, tks)

\* (a cursor advanced by the length of the leftover)
LenMethLeftover(tks, m) == Len(m.rem.val)

\* MatMethod.reset_tokens: the number of tokens of the method
LenMeth(tks, m) == Len(tks) - Len(m.rem.val)

\* MatMethod.reset_tokens: the tokens the method keeps (tokens[:-num_rem_tks])
MethTokens(tks, m) ==
    IF Len(m.rem.val) = 0 THEN <<>>
    ELSE SubSeq(tks, 1, Len(tks) - Len(m.rem.val))

-----------------------------------------------------------------------------
(* MatMixin: the token cursor.  The model counts places in the token list  *)
(* from 1, the code from 0; a place past the end of the list is where the  *)
(* code's tokens[idx] raises IndexError.                                   *)

\* _indent, _blanks: the place after the blanks and tabs from i (the code
\* returns the difference), past the end when the count runs off the list
RECURSIVE IndentEnd(_, _)
IndentEnd(tks, i) ==
    IF i > Len(tks) THEN i
    ELSE IF tks[i] \in {Txt(SP), Txt(TAB)} THEN IndentEnd(tks, i + 1)
    ELSE i

\* _whitespace: the place after the blanks, newlines and tabs from i
RECURSIVE WhitespaceEnd(_, _)
WhitespaceEnd(tks, i) ==
    IF i > Len(tks) THEN i
    ELSE IF tks[i] \in {Txt(SP), Txt(NL), Txt(TAB)}
    THEN WhitespaceEnd(tks, i + 1)
    ELSE i

\* skip comments and whitespace: the place of the first token from i that
\* is neither
RECURSIVE SkipEnd(_, _)
SkipEnd(tks, i) ==
    IF i > Len(tks) THEN i
    ELSE IF tks[i] \in {Txt(SP), Txt(NL), Txt(TAB)} \/ tks[i].k = "Comment"
    THEN SkipEnd(tks, i + 1)
    ELSE i

\* the place of the first token from i that is in the set stops
RECURSIVE ScanTo(_, _, _)
ScanTo(tks, i, stops) ==
    IF i > Len(tks) THEN i
    ELSE IF tks[i] \in stops THEN i
    ELSE ScanTo(tks, i + 1, stops)

\* the texts of the tokens from i up to, not including, j, concatenated
ConcatText(tks, i, j) == Flatten([n \in 1..(j - i) |-> tks[i + n - 1].v])

-----------------------------------------------------------------------------
(* MatClass.attributes: the attribute list of a class or of a block *)

UnknownAttribute == "Exception: Unexpected attribute"
AttributeError == "AttributeError: 'bool' object has no attribute 'append'"

T(w) == <<w>>

cls_attr_types ==
    {T("Abstract"), T("AllowedSubclasses"), T("ConstructOnLoad"),
     T("HandleCompatible"), T("Hidden"), T("InferiorClasses"), T("Sealed")}
prop_attr_types ==
    {T("AbortSet"), T("Abstract"), T("Access"), T("Constant"),
     T("Dependent"), T("GetAccess"), T("GetObservable"), T("Hidden"),
     T("SetAccess"), T("SetObservable"), T("Transient")}
meth_attr_types ==
    {T("Abstract"), T("Access"), T("Hidden"), T("Sealed"), T("Static")}

\* attribute values: True / False, or the text of an enumeration or meta
\* class
AttrBool(b) == [kind |-> "bool", b |-> b, s |-> <<>>]
AttrText(s) == [kind |-> "str", b |-> FALSE, s |-> s]

\* cell array of values: a is at the head of the loop that the closing
\* curly brace ends; the value of the attribute is True when a value is
\* appended to it
RECURSIVE AttrCell(_, _)
AttrCell(tks, a) ==
    IF a.idx > Len(tks) THEN Raise(a, IndexError)
    ELSE IF tks[a.idx] = Punct("}") THEN [a EXCEPT !.idx = a.idx + 1]
    ELSE LET i == IndentEnd(tks, a.idx)
             j == ScanTo(tks, i, {Txt(SP), Txt(TAB), Punct(",")})
         IN IF j > Len(tks) THEN Raise(a, IndexError)
            ELSE IF ConcatText(tks, i, j) # <<>> THEN Raise(a, AttributeError)
            ELSE AttrCell(tks, [a EXCEPT !.idx = j + 1])

\* attribute values: a.idx is the place after `=` and the blanks
AttrValue(tks, a, attr_name) ==
    IF a.idx > Len(tks) THEN Raise(a, IndexError)
    ELSE
    LET t == tks[a.idx]
        b == IF t.k = "Name" /\ t.v \in {T("true"), T("false")}
             THEN [a EXCEPT !.idx = a.idx + 1,
                            !.attrs = IF t.v = T("false")
                                      THEN DictSet(a.attrs, attr_name,
                                                   AttrBool(FALSE))
                                      ELSE a.attrs]
             ELSE IF t.k = "Name" \/ t = Txt("?")
             THEN LET j == ScanTo(tks, a.idx + 1,
                                  {Txt(SP), Txt(TAB), Punct(","), Punct(")")})
                  IN IF j > Len(tks) THEN Raise(a, IndexError)
                     ELSE [a EXCEPT
                             !.idx = IF tks[j] # Punct(")") THEN j + 1 ELSE j,
                             !.attrs = DictSet(a.attrs, attr_name,
                                 AttrText(ConcatText(tks, a.idx, j)))]
             ELSE IF t = Punct("{")
             THEN AttrCell(tks, [a EXCEPT !.idx = a.idx + 1])
             ELSE a
    IN IF b.err # "" THEN b
       ELSE LET i == IndentEnd(tks, b.idx)
            IN IF i > Len(tks) THEN Raise(b, IndexError)
               ELSE IF tks[i] = Punct(",") THEN [b EXCEPT !.idx = i + 1]
               ELSE [b EXCEPT !.idx = i]

\* one entry of the list: its name, then a comma, a value or nothing
AttrEntry(tks, attr_types, a) ==
    LET i == IndentEnd(tks, a.idx)
    IN IF i > Len(tks) THEN Raise(a, IndexError)
       ELSE IF ~(tks[i].k = "Name" /\ tks[i].v \in attr_types)
       THEN Raise([a EXCEPT !.idx = i], UnknownAttribute)
       ELSE LET b == [a EXCEPT !.attrs = DictSet(a.attrs, tks[i].v,
                                                 AttrBool(TRUE))]
                j == IndentEnd(tks, i + 1)
            IN IF j > Len(tks) THEN Raise(b, IndexError)
               ELSE IF tks[j] = Punct(",") THEN [b EXCEPT !.idx = j + 1]
               ELSE IF tks[j] = Punct("=")
               THEN LET n == IndentEnd(tks, j + 1)
                    IN AttrValue(tks, [b EXCEPT !.idx = n], tks[i].v)
               ELSE [b EXCEPT !.idx = j]

\* closing parenthesis terminates attributes
RECURSIVE AttrLoop(_, _, _)
AttrLoop(tks, attr_types, a) ==
    IF a.err # "" THEN a
    ELSE IF a.idx > Len(tks) THEN Raise(a, IndexError)
    ELSE IF tks[a.idx] = Punct(")") THEN [a EXCEPT !.idx = a.idx + 1]
    ELSE AttrLoop(tks, attr_types, AttrEntry(tks, attr_types, a))

\* MatClass.attributes(idx, attr_types): the dictionary and the place after
\* the list, or the error raised
attributes(tks, idx, attr_types) ==
    LET i == IndentEnd(tks, idx)
        a == [err |-> "", idx |-> i, attrs |-> EmptyDict]
    IN IF i > Len(tks) THEN Raise(a, IndexError)
       ELSE IF tks[i] = Punct("(")
       THEN AttrLoop(tks, attr_types, [a EXCEPT !.idx = i + 1])
       ELSE a

-----------------------------------------------------------------------------
(* MatClass.__init__: the class parser.  The record c is the object under  *)
(* construction with the cursor idx and the place pc in __init__:          *)
(* "classdef" before the signature, "body" at the head of the loop over    *)
(* the blocks, "properties" and "methods" at the head of the loop over a   *)
(* block, "done" when __init__ returned, "raised" when it raised.          *)

NotAClass == "TypeError: Object is not a class. Expected a class."
UnexpectedClassName == "Exception: Unexpected class name"
UnindentedComment == "Exception: Comments must be indented."
ExpectedProperty == "TypeError: Expected property."

ClassRaise(c, e) == [c EXCEPT !.err = e, !.pc = "raised"]

\* the attribute assignments at the head of __init__ (rem_tks = 0 is None,
\* as the places are counted from 1); spin, mstart and mcur
\* record, for the properties below, that an iteration of the body loop
\* ended where it began, and where the last method parsed began and where
\* the cursor was put after it
ClassNew(name) ==
    [pc |-> "classdef", err |-> "", idx |-> 1, name |-> name,
     attrs |-> EmptyDict, bases |-> <<>>, docstring |-> <<>>,
     properties |-> EmptyDict, methods |-> EmptyDict, rem_tks |-> 0,
     block |-> EmptyDict, spin |-> FALSE, mstart |-> 0, mcur |-> 0]

\* super classes: newline terminates superclasses
RECURSIVE ClassBases(_, _)
ClassBases(tks, c) ==
    IF c.idx > Len(tks) THEN ClassRaise(c, IndexError)
    ELSE IF tks[c.idx] = Txt(NL) THEN c
    ELSE LET i == IndentEnd(tks, c.idx)
             j == ScanTo(tks, i, {Txt(SP), Txt(NL), Txt(TAB)})
         IN IF j > Len(tks) THEN ClassRaise(c, IndexError)
            ELSE LET base_name == ConcatText(tks, i, j)
                     k == IndentEnd(tks, IF tks[j] # Txt(NL) THEN j + 1 ELSE j)
                     b == IF base_name # <<>>
                          THEN [c EXCEPT !.bases = Append(c.bases, base_name)]
                          ELSE c
                 IN IF k > Len(tks) THEN ClassRaise(b, IndexError)
                    ELSE ClassBases(tks,
                           [b EXCEPT !.idx = IF tks[k] = Tk("Operator", <<"&">>)
                                             THEN k + 1 ELSE k])

\* concatenate docstring: c.idx is past the indentation
RECURSIVE ClassDocLoop(_, _)
ClassDocLoop(tks, c) ==
    IF c.idx > Len(tks) THEN ClassRaise(c, IndexError)
    ELSE IF tks[c.idx].k # "Comment" THEN c
    ELSE LET d == c.docstring \o LStrip(tks[c.idx].v, {"%"})
             i == c.idx + 1
         IN IF i > Len(tks) THEN ClassRaise(c, IndexError)
            ELSE LET nl == tks[i] = Txt(NL)
                     j == IndentEnd(tks, IF nl THEN i + 1 ELSE i)
                     b == [c EXCEPT !.docstring = IF nl THEN d \o <<NL>> ELSE d,
                                    !.idx = j]
                 IN IF j > Len(tks) THEN ClassRaise(b, IndexError)
                    ELSE ClassDocLoop(tks, b)

\* the docstring with a comment that is not indented taken as no comment
ClassDocstringLenient(tks, c) ==
    IF c.err # "" THEN c
    ELSE LET i == IndentEnd(tks, c.idx)
         IN IF i > Len(tks) THEN ClassRaise(c, IndexError)
            ELSE IF i > c.idx THEN ClassDocLoop(tks, [c EXCEPT !.idx = i])
            ELSE c

\* docstring: must be immediately after class and indented
ClassDocstring(tks, c) ==
    IF c.err # "" THEN c
    ELSE LET i == IndentEnd(tks, c.idx)
         IN IF i > Len(tks) THEN ClassRaise(c, IndexError)
            ELSE IF i > c.idx THEN ClassDocLoop(tks, [c EXCEPT !.idx = i])
            ELSE IF tks[c.idx].k = "Comment"
            THEN ClassRaise(c, UnindentedComment)
            ELSE c

\* after the super classes: skip the newline that ended them
ClassAfterBases(d) == IF d.err # "" THEN d ELSE [d EXCEPT !.idx = d.idx + 1]

\* super classes, if any; b.idx is past the blanks after the classname
ClassSupers(tks, b) ==
    IF b.idx > Len(tks) THEN ClassRaise(b, IndexError)
    ELSE IF tks[b.idx] = Tk("Operator", <<"<">>)
    THEN ClassAfterBases(ClassBases(tks, [b EXCEPT !.idx = b.idx + 1]))
    ELSE IF tks[b.idx] = Txt(NL) THEN [b EXCEPT !.idx = b.idx + 1]
    ELSE b

\* classname, at place i past the blanks after the attributes a
ClassName(tks, c, a, i) ==
    IF i > Len(tks) THEN ClassRaise(c, IndexError)
    ELSE IF tks[i] # Tk("Name", c.name) THEN ClassRaise(c, UnexpectedClassName)
    ELSE ClassSupers(tks, [c EXCEPT !.attrs = a.attrs,
                                    !.idx = IndentEnd(tks, i + 1)])

\* class attributes
ClassAttrs(tks, c, a) ==
    IF a.err # "" THEN ClassRaise([c EXCEPT !.idx = a.idx], a.err)
    ELSE ClassName(tks, c, a, IndentEnd(tks, a.idx))

\* the signature: classdef keyword, class attributes, classname, super
\* classes
ClassSignature(tks, c) ==
    IF Len(tks) < 1 THEN ClassRaise(c, IndexError)
    ELSE IF tks[1] # Kw("classdef") THEN ClassRaise(c, NotAClass)
    ELSE ClassAttrs(tks, c, attributes(tks, 2, cls_attr_types))

\* the loop over the blocks is entered unless something was raised
ClassEnterBody(d) == IF d.err # "" THEN d ELSE [d EXCEPT !.pc = "body"]

\* __init__ up to the loop over the blocks
ClassHeader(tks, c) ==
    ClassEnterBody(ClassDocstring(tks, ClassSignature(tks, c)))

\* one pass of the loop over the code body: leave at the `end` of the
\* class, else skip comments and whitespace and enter a properties or a
\* methods block, whose attributes are parsed; any other token ends the
\* pass where it is
ClassBody(tks, c) ==
    IF c.idx > Len(tks) THEN ClassRaise(c, IndexError)
    ELSE IF tks[c.idx] = Kw("end")
    THEN [c EXCEPT !.pc = "done", !.rem_tks = c.idx]
    ELSE
    LET i == SkipEnd(tks, c.idx)
    IN IF i > Len(tks) THEN ClassRaise(c, IndexError)
    ELSE IF tks[i] \in {Kw("properties"), Kw("methods")}
    THEN LET a == attributes(tks, i + 1,
                             IF tks[i] = Kw("properties")
                             THEN prop_attr_types ELSE meth_attr_types)
         IN IF a.err # "" THEN ClassRaise([c EXCEPT !.idx = a.idx], a.err)
            ELSE [c EXCEPT !.pc = tks[i].v[1], !.idx = a.idx,
                           !.block = a.attrs, !.spin = FALSE]
    ELSE [c EXCEPT !.idx = i, !.spin = (i = c.idx)]

\* concatenate default value until newline or comment: the place of the
\* newline or comment
RECURSIVE DefaultEnd(_, _)
DefaultEnd(tks, i) ==
    IF i > Len(tks) THEN i
    ELSE IF tks[i] = Txt(NL) \/ tks[i].k = "Comment" THEN i
    ELSE DefaultEnd(tks, i + 1)

\* a property's dictionary: the keys set and their values
PropNew(attr_dict) ==
    [keys |-> {"attrs"}, attrs |-> attr_dict, default |-> None,
     docstring |-> None]

\* one pass of the loop over a properties block: leave after its `end`, or
\* read one property, its default and its docstring
ClassProperty(tks, c) ==
    IF c.idx > Len(tks) THEN ClassRaise(c, IndexError)
    ELSE IF tks[c.idx] = Kw("end")
    THEN [c EXCEPT !.pc = "body", !.idx = c.idx + 1]
    ELSE
    LET i == SkipEnd(tks, c.idx)
    IN IF i > Len(tks) THEN ClassRaise(c, IndexError)
    ELSE IF tks[i].k # "Name" THEN ClassRaise([c EXCEPT !.idx = i],
                                              ExpectedProperty)
    ELSE
    LET prop_name == tks[i].v
        j == IndentEnd(tks, i + 1)
    IN IF j > Len(tks) THEN ClassRaise(c, IndexError)
    ELSE
    LET hasEq == tks[j] = Punct("=")
        v == IndentEnd(tks, j + 1)
        e == DefaultEnd(tks, v)
    IN IF hasEq /\ e > Len(tks) THEN ClassRaise(c, IndexError)
    ELSE
    LET default == ConcatText(tks, v, e)
        k == IF ~hasEq THEN j
             ELSE IF tks[e].k # "Comment" THEN e + 1 ELSE e
        p1 == IF ~hasEq
              THEN [PropNew(c.block) EXCEPT !.keys = @ \cup {"default"}]
              ELSE IF default # <<>>
              THEN [PropNew(c.block) EXCEPT
                      !.keys = @ \cup {"default"},
                      !.default = Some(RStrip(default, WhiteChars))]
              ELSE PropNew(c.block)   \* update('') sets no key
    IN IF k > Len(tks) THEN ClassRaise(c, IndexError)
    ELSE
    LET hasDoc == tks[k].k = "Comment"
        p2 == [p1 EXCEPT !.keys = @ \cup {"docstring"},
                         !.docstring = IF hasDoc
                                       THEN Some(LStrip(tks[k].v, {"%"}))
                                       ELSE None]
        w == IF hasDoc THEN k + 1 ELSE k
        n == WhitespaceEnd(tks, w)
    IN IF n > Len(tks) THEN ClassRaise(c, IndexError)
       ELSE [c EXCEPT !.idx = n,
                      !.properties = DictSet(c.properties, prop_name, p2)]

\* one pass of the loop over a methods block: leave after its `end`, or
\* construct a MatMethod from the tokens from the cursor on, move the
\* cursor by what reset_tokens returns, store the method under its name
ClassMethod(tks, c) ==
    IF c.idx > Len(tks) THEN ClassRaise(c, IndexError)
    ELSE IF tks[c.idx] = Kw("end")
    THEN [c EXCEPT !.pc = "body", !.idx = c.idx + 1]
    ELSE
    LET i == SkipEnd(tks, c.idx)
    IN IF i > Len(tks) THEN ClassRaise(c, IndexError)
    ELSE
    LET slice == SubSeq(tks, i, Len(tks))
        m == MatMethod(slice)
    IN IF m.err # "" THEN ClassRaise([c EXCEPT !.idx = i], m.err)
    ELSE
    LET cur == i + LenMeth(slice, m)
        meth == [name |-> m.name, retv |-> m.retv, args |-> m.args,
                 docstring |-> m.docstring, tokens |-> MethTokens(slice, m),
                 rem_tks |-> None, attrs |-> c.block]
        n == WhitespaceEnd(tks, cur)
    IN IF n > Len(tks) THEN ClassRaise(c, IndexError)
       ELSE [c EXCEPT !.idx = n, !.mstart = i, !.mcur = cur,
                      !.methods = DictSet(c.methods, m.name.val, meth)]

\* the next step of __init__ from where it stands
ClassStep(tks, c) ==
    CASE c.pc = "classdef" -> ClassHeader(tks, c)
      [] c.pc = "body" -> ClassBody(tks, c)
      [] c.pc = "properties" -> ClassProperty(tks, c)
      [] c.pc = "methods" -> ClassMethod(tks, c)
      [] OTHER -> c

\* MatClass.__init__ as a whole: the steps up to the return or the raise;
\* a pass of the body loop that ended where it began is repeated for ever
RECURSIVE ClassRun(_, _)
ClassRun(tks, c) ==
    IF c.pc \in {"done", "raised"} \/ c.spin THEN c
    ELSE ClassRun(tks, ClassStep(tks, c))

MatClass(name, tks) == ClassRun(tks, ClassNew(name))

-----------------------------------------------------------------------------
(* The function declarations parsed: how the lexer hands over a signature  *)
(* (the comment at the head of MatFunction.__init__), a leading comment    *)
(* block, a body of statements and the function's own `end`                *)

MaxNames == 2
MaxItems == 2
MaxDoc == 1

NamePool == <<"a", "b", "c", "d">>
FirstNames(n) == [i \in 1..n |-> <<NamePool[i]>>]

Blank == Tk("Whitespace", <<SP>>)
Newline == Tk("Whitespace", <<NL>>)
Name(w) == Tk("Name", <<w>>)

RECURSIVE Join(_, _)
\* the names with the separator between them, as written in the source
Join(names, sep) ==
    IF names = <<>> THEN <<>>
    ELSE IF Len(names) = 1 THEN names[1]
    ELSE names[1] \o sep \o Join(Tail(names), sep)

\* outputs: "none", or the names "bare" or in "brackets", with any trailing
\* blank, then `=` and possibly a blank
OutTokens(d) ==
    IF d.outStyle = "none" THEN <<>>
    ELSE <<Tk("Text",
              (IF d.outStyle = "brackets"
               THEN <<"[">> \o Join(d.outs, d.sep) \o <<"]">>
               ELSE Join(d.outs, d.sep))
              \o (IF d.outBlank THEN <<SP>> ELSE <<>>)),
           Punct("=")>>
         \o (IF d.eqBlank THEN <<Blank>> ELSE <<>>)

\* inputs: no parentheses, empty parentheses, or the names between them
InTokens(d) ==
    IF ~d.parens THEN <<>>
    ELSE IF d.ins = <<>> THEN <<Punct("("), Punct(")")>>
    ELSE <<Punct("("), Tk("Text", Join(d.ins, d.sep)), Punct(")")>>

SigTokens(d) ==
    <<Kw("function"), Blank>> \o OutTokens(d)
      \o <<Tk("NameFunction", <<d.sigName>>)>> \o InTokens(d) \o <<Newline>>

DocTokens(d) ==
    Flatten([i \in 1..d.doc |->
                <<Tk("Comment", <<"%", SP, "help">>), Txt(NL)>>])

\* one statement of a body
ItemKinds == {"stmt", "if", "idx", "rng", "ifrng"}
ItemTokens(kind) ==
    CASE kind = "stmt" -> <<Name("y"), Txt(NL)>>
      [] kind = "if" ->
           <<Kw("if"), Txt(SP), Name("c"), Txt(NL), Name("y"), Txt(NL),
             Kw("end"), Txt(NL)>>
      [] kind = "idx" ->
           <<Name("a"), Punct("("), Kw("end"), Punct(")"), Txt(NL)>>
      [] kind = "rng" ->
           <<Name("a"), Punct("("), Tk("Number", <<"1">>), Punct(":"),
             Kw("end"), Punct(")"), Txt(NL)>>
      [] kind = "ifrng" ->
           <<Kw("if"), Txt(SP), Name("c"), Txt(NL),
             Name("a"), Punct("("), Tk("Number", <<"1">>), Punct(":"),
             Kw("end"), Punct(")"), Txt(NL), Kw("end"), Txt(NL)>>

BodyTokens(items) == Flatten([i \in 1..Len(items) |-> ItemTokens(items[i])])

\* what follows the function's own `end`: the end of the file, or the rest
\* of a methods block
Trailers == {<<Txt(NL)>>, <<Txt(NL), Kw("end"), Txt(NL), Kw("end"), Txt(NL)>>}

FunctionTokens(d) ==
    SigTokens(d) \o DocTokens(d) \o BodyTokens(d.items) \o <<Kw("end")>>
      \o d.trailer

\* the place of the function's own `end` in FunctionTokens(d)
OwnEnd(d) ==
    Len(SigTokens(d)) + Len(DocTokens(d)) + Len(BodyTokens(d.items)) + 1

SeqsUpTo(S, n) == UNION {[1..k -> S] : k \in 0..n}

DeclShape(d) ==
    /\ (d.outStyle = "none") = (d.outs = <<>>)
    /\ d.outStyle = "none" => ~d.outBlank /\ d.eqBlank
    /\ d.outStyle = "bare" => Len(d.outs) = 1
    /\ ~d.parens => d.ins = <<>>
    /\ Len(d.outs) < 2 /\ Len(d.ins) < 2 => d.sep = <<",">>

\* every form of signature, before a one-statement body
SignatureDecls ==
    {d \in [decl : {"f"}, isMethod : BOOLEAN, sigName : {"f", "g"},
            outStyle : {"none", "bare", "brackets"},
            outs : {FirstNames(n) : n \in 0..MaxNames},
            outBlank : BOOLEAN, eqBlank : BOOLEAN,
            sep : {<<",">>, <<",", SP>>},
            parens : BOOLEAN,
            ins : {FirstNames(n) : n \in 0..MaxNames},
            doc : 0..MaxDoc,
            items : {<<"stmt">>},
            trailer : {<<Txt(NL)>>}] : DeclShape(d)}

\* every body, after the signature `function a = f(a)`
BodyDecls ==
    [decl : {"f"}, isMethod : BOOLEAN, sigName : {"f"},
     outStyle : {"bare"}, outs : {FirstNames(1)},
     outBlank : {TRUE}, eqBlank : {TRUE}, sep : {<<",">>},
     parens : {TRUE}, ins : {FirstNames(1)},
     doc : 0..MaxDoc,
     items : SeqsUpTo(ItemKinds, MaxItems),
     trailer : Trailers]

FunctionDecls == SignatureDecls \cup BodyDecls

-----------------------------------------------------------------------------
(* The specification of the function parser: a declaration is written,    *)
(* MatFunction (or MatMethod) is constructed from its tokens, and a method *)
(* then has its tokens reset                                               *)

Idle == [op |-> "none"]

InitFunction ==
    /\ src \in FunctionDecls
    /\ tokens = FunctionTokens(src)
    /\ fn = [pc |-> "init", obj |-> FnNew(None), tokens |-> <<>>, ret |-> 0]
    /\ cp = Idle
    /\ heap = <<>>
    /\ sysModules = <<>>
    /\ cache = <<>>
    /\ last = Idle
    /\ hist = <<>>

\* MatFunction(name, modname, tks), or MatMethod(modname, tks, cls, attrs)
Construct ==
    /\ fn.pc = "init"
    /\ LET o == MatFunction(IF src.isMethod THEN None ELSE Some(<<src.decl>>),
                            src.isMethod, tokens)
       IN fn' = [pc |-> IF o.err = "" THEN "built" ELSE "raised",
                 obj |-> o, tokens |-> tokens, ret |-> 0]
    /\ UNCHANGED <<src, tokens, cp, heap, sysModules, cache, last, hist>>

\* meth.reset_tokens()
ResetTokens ==
    /\ fn.pc = "built"
    /\ src.isMethod
    /\ fn' = [pc |-> "reset",
              obj |-> [fn.obj EXCEPT !.rem = None],
              tokens |-> MethTokens(fn.tokens, fn.obj),
              ret |-> LenMeth(fn.tokens, fn.obj)]
    /\ UNCHANGED <<src, tokens, cp, heap, sysModules, cache, last, hist>>

NextFunction == Construct \/ ResetTokens

SpecFunction == InitFunction /\ [][NextFunction]_vars

-----------------------------------------------------------------------------
(* The class declarations parsed: the signature, indented comment lines,   *)
(* blocks, and the `end` of the class.  The tokens are written piece by    *)
(* piece; a piece that is a method declaration is marked, so that where    *)
(* each method begins and ends in the token list is known.                 *)

MaxMeths == 2
MaxBlocks == 2

Piece(isMeth, toks) == [m |-> isMeth, t |-> toks]

\* method declarations: with outputs and inputs, or `function g()`,
\* `function g(a)`
MethodDecls ==
    [decl : {"f"}, isMethod : {TRUE}, sigName : {"f", "g"},
     outStyle : {"bare"}, outs : {FirstNames(1)},
     outBlank : {TRUE}, eqBlank : {TRUE}, sep : {<<",">>},
     parens : {TRUE}, ins : {FirstNames(1)}, doc : {0},
     items : SeqsUpTo(ItemKinds, 1), trailer : {<<>>}]
    \cup
    [decl : {"f"}, isMethod : {TRUE}, sigName : {"g"},
     outStyle : {"none"}, outs : {<<>>},
     outBlank : {FALSE}, eqBlank : {TRUE}, sep : {<<",">>},
     parens : {TRUE}, ins : {<<>>, FirstNames(1)}, doc : {0},
     items : {<<"stmt">>}, trailer : {<<>>}]

PlainMethod ==
    [decl |-> "f", isMethod |-> TRUE, sigName |-> "f",
     outStyle |-> "bare", outs |-> FirstNames(1),
     outBlank |-> TRUE, eqBlank |-> TRUE, sep |-> <<",">>,
     parens |-> TRUE, ins |-> FirstNames(1), doc |-> 0,
     items |-> <<"if">>, trailer |-> <<>>]

\* property declarations: a name; `=` and a default, `=` and nothing, or
\* neither; a comment trailing on the line or none; and on the next line a
\* comment that is indented, one that is not, or none
MaxProps == 2
PropNames == <<"p", "q", "r">>

PropDecl(name, eq, default, doc, later) ==
    [name |-> name, eq |-> eq, default |-> default, doc |-> doc,
     later |-> later]

PropDecls ==
    {PropDecl("p", d # <<>>, d, c, "none") :
        d \in {<<>>, <<Tk("Number", <<"1">>)>>}, c \in BOOLEAN}

PropShapes ==
    {PropDecl("p", eq, d, c, l) :
        eq \in BOOLEAN, d \in {<<>>, <<Tk("Number", <<"1">>)>>},
        c \in BOOLEAN, l \in {"none", "indented", "flush"}}
    \ {PropDecl("p", FALSE, <<Tk("Number", <<"1">>)>>, c, l) :
        c \in BOOLEAN, l \in {"none", "indented", "flush"}}

\* up to MaxProps properties, named in their order
PropSeqs ==
    {[i \in 1..Len(ss) |-> [ss[i] EXCEPT !.name = PropNames[i]]] :
        ss \in SeqsUpTo(PropShapes, MaxProps)}

LaterComment == Tk("Comment", <<"%", SP, "later">>)

PropTokens(q) ==
    <<Txt(SP), Txt(SP), Name(q.name)>>
      \o (IF ~q.eq THEN <<>>
          ELSE <<Txt(SP), Punct("=")>>
               \o (IF q.default = <<>> THEN <<>>
                   ELSE <<Txt(SP)>> \o q.default))
      \o (IF q.doc THEN <<Txt(SP), Tk("Comment", <<"%", SP, "about">>)>>
          ELSE <<>>)
      \o <<Txt(NL)>>
      \o (IF q.later = "indented"
          THEN <<Txt(SP), Txt(SP), LaterComment, Txt(NL)>>
          ELSE IF q.later = "flush" THEN <<LaterComment, Txt(NL)>>
          ELSE <<>>)

\* attribute lists.  An entry is written `Name`, `Name = false`,
\* `Name = private` or `Name = { A B }`; the cell array holds up to MaxVals
\* values, separated by blanks or by commas; a list holds up to MaxAttrs
\* entries.  Sealed is an attribute of a class and of methods, Access of
\* properties and of methods, Bogus of none.
MaxAttrs == 2
MaxVals == 2
ValNames == <<"A", "B", "D">>

AttrDecl(name, form, vals, commas) ==
    [name |-> name, form |-> form, vals |-> vals, commas |-> commas]

AttrDecls ==
    {AttrDecl(n, f, <<>>, FALSE) :
        n \in {"Access", "Sealed", "Bogus"}, f \in {"bare", "false", "text"}}
    \cup {AttrDecl(n, "cell", SubSeq(ValNames, 1, k), c) :
            n \in {"Access", "Sealed"}, k \in 1..MaxVals, c \in BOOLEAN}
    \cup {AttrDecl(n, "cell", <<>>, FALSE) : n \in {"Access", "Sealed"}}

CellTokens(e) ==
    <<Punct("{")>>
      \o (IF e.commas \/ e.vals = <<>> THEN <<>> ELSE <<Txt(SP)>>)
      \o Flatten([i \in 1..Len(e.vals) |->
            <<Name(e.vals[i])>>
              \o (IF ~e.commas THEN <<Txt(SP)>>
                  ELSE IF i < Len(e.vals) THEN <<Punct(","), Txt(SP)>>
                  ELSE <<>>)])
      \o <<Punct("}")>>

AttrDeclTokens(e) ==
    <<Name(e.name)>>
      \o (IF e.form = "bare" THEN <<>>
          ELSE <<Txt(SP), Punct("="), Txt(SP)>>
               \o (IF e.form = "false" THEN <<Name("false")>>
                   ELSE IF e.form = "text" THEN <<Name("private")>>
                   ELSE CellTokens(e)))

\* the list in its parentheses after a blank; nothing for no entries
AttrTokens(es) ==
    IF es = <<>> THEN <<>>
    ELSE <<Txt(SP), Punct("(")>>
         \o Flatten([i \in 1..Len(es) |->
               AttrDeclTokens(es[i])
                 \o (IF i < Len(es) THEN <<Punct(","), Txt(SP)>> ELSE <<>>)])
         \o <<Punct(")")>>

AttrLists == SeqsUpTo(AttrDecls, MaxAttrs)

\* blocks: properties, methods, events, and a statement that is no block
\* a block may end with a line of comment before its `end`
Block(kind, attrs, props, meths) ==
    [kind |-> kind, attrs |-> attrs, props |-> props, meths |-> meths,
     tail |-> FALSE]

BlockPieces(b) ==
    IF b.kind = "stray" THEN <<Piece(FALSE, <<Txt(SP), Name("x"), Txt(NL)>>)>>
    ELSE <<Piece(FALSE, <<Txt(SP), Kw(b.kind)>> \o AttrTokens(b.attrs)
                           \o <<Txt(NL)>>)>>
         \o [i \in 1..Len(b.props) |-> Piece(FALSE, PropTokens(b.props[i]))]
         \o Flatten([i \in 1..Len(b.meths) |->
                <<Piece(FALSE, <<Txt(SP), Txt(SP)>>),
                  Piece(TRUE, FunctionTokens(b.meths[i])),
                  Piece(FALSE, <<Txt(NL)>>)>>])
         \o (IF b.kind = "events"
             THEN <<Piece(FALSE, <<Txt(SP), Txt(SP), Name("e"), Txt(NL)>>)>>
             ELSE <<>>)
         \o (IF b.tail
             THEN <<Piece(FALSE, <<Txt(SP), Txt(SP),
                                   Tk("Comment", <<"%", SP, "note">>),
                                   Txt(NL)>>)>>
             ELSE <<>>)
         \o <<Piece(FALSE, <<Txt(SP), Kw("end"), Txt(NL)>>)>>

\* what stands between two base names: `&` with blanks around it, with
\* none, with one before or one after
Amp == Tk("Operator", <<"&">>)
AmpBlanks == <<Txt(SP), Amp, Txt(SP)>>
AmpStyles == {AmpBlanks, <<Amp>>, <<Txt(SP), Amp>>, <<Amp, Txt(SP)>>}

\* what stands before the comment of a line of the docstring: nothing,
\* blanks, tabs
Indents == {<<>>, <<Txt(SP)>>, <<Txt(SP), Txt(SP)>>, <<Txt(TAB)>>,
            <<Txt(SP), Txt(TAB)>>}
Indented(n) == [i \in 1..n |-> <<Txt(SP), Txt(SP)>>]

RECURSIVE JoinBases(_, _)
JoinBases(bases, amp) ==
    IF bases = <<>> THEN <<>>
    ELSE <<Name(Head(bases))>>
         \o (IF Len(bases) > 1 THEN amp ELSE <<>>)
         \o JoinBases(Tail(bases), amp)

ClassSigTokens(d) ==
    <<Kw("classdef")>> \o AttrTokens(d.attrs) \o <<Txt(SP), Name(d.name)>>
      \o (IF d.bases = <<>> THEN <<>>
          ELSE <<Txt(SP), Tk("Operator", <<"<">>), Txt(SP)>>
               \o JoinBases(d.bases, d.amp))
      \o <<Txt(NL)>>
      \o Flatten([i \in 1..d.doc |->
             d.indent[i] \o <<Tk("Comment", <<"%", SP, "help">>), Txt(NL)>>])

ClassPieces(d) ==
    <<Piece(FALSE, ClassSigTokens(d))>>
      \o Flatten([i \in 1..Len(d.blocks) |-> BlockPieces(d.blocks[i])])
      \o <<Piece(FALSE, <<Kw("end"), Txt(NL)>>)>>

PieceTokens(ps) == Flatten([i \in 1..Len(ps) |-> ps[i].t])

ClassTokens(d) == PieceTokens(ClassPieces(d))

\* where the method declarations lie in ClassTokens(d): first and last place
MethodSpans(d) ==
    LET ps == ClassPieces(d)
    IN {[first |-> Len(PieceTokens(SubSeq(ps, 1, i - 1))) + 1,
         last |-> Len(PieceTokens(SubSeq(ps, 1, i)))] :
          i \in {n \in 1..Len(ps) : ps[n].m}}

NoAttrs == <<>>

\* classes with one methods block of up to MaxMeths methods, after a
\* properties block or not
MethodClassDecls ==
    {[name |-> "C", attrs |-> NoAttrs, bases |-> bs, amp |-> AmpBlanks,
      doc |-> 0, indent |-> <<>>, blocks |-> pre \o <<Block("methods", NoAttrs, <<>>, ms)>>] :
        bs \in {<<>>, <<"B">>},
        pre \in {<<>>, <<Block("properties", NoAttrs,
                               <<PropDecl("p", FALSE, <<>>, FALSE,
                                          "none")>>, <<>>)>>},
        ms \in SeqsUpTo(MethodDecls, MaxMeths) \ {<<>>}}

\* classes with up to MaxBlocks blocks of any kind
SimpleBlocks ==
    {Block("properties", NoAttrs, <<q>>, <<>>) : q \in PropDecls}
    \cup {Block("methods", NoAttrs, <<>>, <<PlainMethod>>),
          Block("events", NoAttrs, <<>>, <<>>),
          Block("stray", NoAttrs, <<>>, <<>>)}

BlockClassDecls ==
    {[name |-> "C", attrs |-> NoAttrs, bases |-> <<>>, amp |-> AmpBlanks,
      doc |-> n, indent |-> Indented(n), blocks |-> bs] :
        n \in 0..MaxDoc, bs \in SeqsUpTo(SimpleBlocks, MaxBlocks)}

\* classes of up to MaxBases bases, joined in each style
MaxBases == 3
BaseNames == <<"A", "B", "D", "E">>
BaseClassDecls ==
    {[name |-> "C", attrs |-> NoAttrs, bases |-> SubSeq(BaseNames, 1, k),
      amp |-> a, doc |-> n, indent |-> Indented(n), blocks |-> bs] :
        k \in 0..MaxBases, a \in AmpStyles, n \in 0..MaxDoc,
        bs \in {<<>>, <<Block("methods", NoAttrs, <<>>, <<PlainMethod>>)>>}}

\* classes with a docstring of up to MaxDoc lines, each indented or not
DocClassDecls ==
    {[name |-> "C", attrs |-> NoAttrs, bases |-> b, amp |-> AmpBlanks,
      doc |-> Len(f), indent |-> f, blocks |-> bs] :
        b \in {<<>>, <<"A">>}, f \in SeqsUpTo(Indents, MaxDoc) \ {<<>>},
        bs \in {<<>>, <<Block("methods", NoAttrs, <<>>, <<PlainMethod>>)>>}}

\* classes with an attribute list: of the class, of its properties block
\* or of its methods block
OneProp == PropDecl("p", FALSE, <<>>, FALSE, "none")
AttrBlocks(pa, ma) ==
    <<Block("properties", pa, <<OneProp>>, <<>>),
      Block("methods", ma, <<>>, <<PlainMethod>>)>>
AttrClassDecls ==
    {[name |-> "C", attrs |-> ca, bases |-> <<>>, amp |-> AmpBlanks,
      doc |-> 0, indent |-> <<>>, blocks |-> AttrBlocks(pa, ma)] :
        ca \in AttrLists, pa \in {NoAttrs}, ma \in {NoAttrs}}
    \cup {[name |-> "C", attrs |-> NoAttrs, bases |-> <<>>, amp |-> AmpBlanks,
           doc |-> 0, indent |-> <<>>, blocks |-> AttrBlocks(pa, NoAttrs)] : pa \in AttrLists}
    \cup {[name |-> "C", attrs |-> NoAttrs, bases |-> <<>>, amp |-> AmpBlanks,
           doc |-> 0, indent |-> <<>>, blocks |-> AttrBlocks(NoAttrs, ma)] : ma \in AttrLists}

\* classes with a properties block of up to MaxProps properties, or with
\* a methods block of one method or none; the block ends with a comment or
\* not; another block follows it or not
PlainBlocks ==
    {Block("properties", NoAttrs, <<OneProp>>, <<>>),
     Block("methods", NoAttrs, <<>>, <<PlainMethod>>)}
EndingBlocks ==
    {[Block("properties", NoAttrs, ps, <<>>) EXCEPT !.tail = t] :
        ps \in PropSeqs, t \in BOOLEAN}
    \cup {[Block("methods", NoAttrs, <<>>, ms) EXCEPT !.tail = t] :
            ms \in SeqsUpTo({PlainMethod}, 1), t \in BOOLEAN}
EndClassDecls ==
    {[name |-> "C", attrs |-> NoAttrs, bases |-> <<>>, amp |-> AmpBlanks,
      doc |-> 0, indent |-> <<>>, blocks |-> <<b>> \o bs] :
        b \in EndingBlocks, bs \in SeqsUpTo(PlainBlocks, 1)}

ClassDecls ==
    MethodClassDecls \cup BlockClassDecls \cup BaseClassDecls
      \cup AttrClassDecls \cup DocClassDecls \cup EndClassDecls

-----------------------------------------------------------------------------
(* The specification of the class parser: MatClass.__init__ runs over the  *)
(* tokens of a class declaration, one pass of a loop at a time             *)

InitClass ==
    /\ src \in ClassDecls
    /\ tokens = ClassTokens(src)
    /\ cp = ClassNew(<<src.name>>)
    /\ fn = Idle
    /\ heap = <<>>
    /\ sysModules = <<>>
    /\ cache = <<>>
    /\ last = Idle
    /\ hist = <<>>

ParseHeader ==
    /\ cp.pc = "classdef"
    /\ cp' = ClassHeader(tokens, cp)
    /\ UNCHANGED <<src, tokens, fn, heap, sysModules, cache, last, hist>>

BodyPass ==
    /\ cp.pc = "body"
    /\ cp' = ClassBody(tokens, cp)
    /\ UNCHANGED <<src, tokens, fn, heap, sysModules, cache, last, hist>>

PropertyPass ==
    /\ cp.pc = "properties"
    /\ cp' = ClassProperty(tokens, cp)
    /\ UNCHANGED <<src, tokens, fn, heap, sysModules, cache, last, hist>>

MethodPass ==
    /\ cp.pc = "methods"
    /\ cp' = ClassMethod(tokens, cp)
    /\ UNCHANGED <<src, tokens, fn, heap, sysModules, cache, last, hist>>

NextClass == ParseHeader \/ BodyPass \/ PropertyPass \/ MethodPass

SpecClass == InitClass /\ [][NextClass]_vars

-----------------------------------------------------------------------------
(* The source tree.  A path is the sequence of its components; a dotted    *)
(* name is the sequence of the names between its dots, which is what       *)
(* objname.replace('.', os.sep) and path.replace(os.sep, '.') convert      *)
(* between.  A name of sys.modules is a dotted name too: 'util' is         *)
(* <<"util">>, 'a.util' is <<"a", "util">>.                                *)

BaseDir == <<"src">>

\* the folders under BaseDir, and the mfiles (without the .m)
Dirs ==
    {<<"pkg">>, <<"pkg", "Foo">>, <<"a">>, <<"a", "util">>,
     <<"b">>, <<"b", "util">>}
MFiles ==
    {<<"Top">>, <<"pkg", "Foo">>, <<"pkg", "Base">>, <<"pkg", "Derived">>,
     <<"pkg", "Child">>, <<"pkg", "fun">>, <<"pkg", "bad">>,
     <<"pkg", "script">>, <<"a", "util", "Helper">>, <<"a", "util", "Top">>,
     <<"b", "util", "Other">>}

FunctionFile(name, sig, style, ins) ==
    FunctionTokens(
      [decl |-> name, isMethod |-> FALSE, sigName |-> sig,
       outStyle |-> style,
       outs |-> IF style = "none" THEN <<>> ELSE FirstNames(1),
       outBlank |-> style # "none", eqBlank |-> TRUE, sep |-> <<",">>,
       parens |-> TRUE, ins |-> ins, doc |-> 1,
       items |-> <<"stmt">>, trailer |-> <<Txt(NL)>>])

ClassFile(name, bases) ==
    ClassTokens([name |-> name, attrs |-> NoAttrs, bases |-> bases,
                 amp |-> AmpBlanks, doc |-> 1, indent |-> Indented(1),
                 blocks |-> <<Block("methods", NoAttrs, <<>>,
                                    <<PlainMethod>>)>>])

\* a class with a property, its default and its comment, and a method
HelperFile ==
    ClassTokens([name |-> "Helper", attrs |-> NoAttrs, bases |-> <<>>,
                 amp |-> AmpBlanks, doc |-> 1, indent |-> Indented(1),
                 blocks |-> <<Block("properties", NoAttrs,
                                    <<PropDecl("p", TRUE,
                                               <<Tk("Number", <<"1">>)>>,
                                               TRUE, "none")>>, <<>>),
                              Block("methods", NoAttrs, <<>>,
                                    <<PlainMethod>>)>>])

\* the tokens the lexer gives for each mfile
FileTokens(f) ==
    CASE f = <<"Top">> -> ClassFile("Top", <<>>)
      [] f = <<"pkg", "Foo">> -> FunctionFile("Foo", "Foo", "bare", FirstNames(1))
      [] f = <<"pkg", "Base">> -> ClassFile("Base", <<"Missing">>)
      [] f = <<"pkg", "Derived">> -> ClassFile("Derived", <<"Base", "Top">>)
      [] f = <<"pkg", "Child">> -> ClassFile("Child", <<"Base">>)
      [] f = <<"pkg", "fun">> -> FunctionFile("fun", "fun", "brackets", FirstNames(1))
      [] f = <<"pkg", "bad">> -> FunctionFile("bad", "other", "bare", FirstNames(1))
      [] f = <<"pkg", "script">> -> <<Name("x"), Txt(NL)>>
      [] f = <<"a", "util", "Helper">> -> HelperFile
      [] f = <<"a", "util", "Top">> -> ClassFile("Top", <<>>)
      [] f = <<"b", "util", "Other">> -> ClassFile("Other", <<>>)

Front(p) == SubSeq(p, 1, Len(p) - 1)
Last(p) == p[Len(p)]
IsUnder(p, base) == Len(p) >= Len(base) /\ SubSeq(p, 1, Len(base)) = base
Below(p, base) == SubSeq(p, Len(base) + 1, Len(p))

\* os.path.isdir(p), os.path.isfile(p + '.m')
IsDir(p) == IsUnder(p, BaseDir) /\ (p = BaseDir \/ Below(p, BaseDir) \in Dirs)
IsMFile(p) == IsUnder(p, BaseDir) /\ Below(p, BaseDir) \in MFiles

-----------------------------------------------------------------------------
(* The objects.  heap[id] is the object of identity id; a world w is the   *)
(* heap, sys.modules, and the list of the files read by the operation in   *)
(* progress.  An operation gives the world it leaves, what it returned     *)
(* (ret, an identity, 0 for None) and what it raised (err, an identity).   *)

Obj(type, name, path, package, module, bases, msg) ==
    [type |-> type, name |-> name, path |-> path, package |-> package,
     module |-> module, bases |-> bases, msg |-> msg]

New(w, o) == [w EXCEPT !.heap = Append(w.heap, o)]
Newest(w) == Len(w.heap)

Return(w, id) == [w |-> w, ret |-> id, err |-> 0]
\* raise an exception made on the spot
Throw(w, type, msg) ==
    LET v == New(w, Obj(type, "", <<>>, <<>>, <<>>, <<>>, msg))
    IN [w |-> v, ret |-> 0, err |-> Newest(v)]

\* MatModule.__init__: add module to system dictionary, under its name
MatModuleInit(w, name, path, package) ==
    LET v == New(w, Obj("MatModule", name, path, package, <<>>, <<>>, ""))
    IN [v EXCEPT !.sysModules = DictSet(w.sysModules, <<name>>, Newest(v))]

\* the exception type of a parser error
ErrType(e) == IF e = IndexError THEN "IndexError"
              ELSE IF e \in {UnexpectedName, UnexpectedClassName,
                             UnknownAttribute, UnindentedComment}
              THEN "Exception"
              ELSE IF e = AttributeError THEN "AttributeError"
              ELSE "TypeError"

\* return the object o, just made
Made(w, o) == Return(New(w, o), Len(w.heap) + 1)

\* what the constructor f of a function left: the function, or its raise
MadeFunction(w, name, modname, f) ==
    IF f.err # "" THEN Throw(w, ErrType(f.err), f.err)
    ELSE Made(w, Obj("MatFunction", name, <<>>, <<>>, modname, <<>>, ""))

\* what the constructor c of a class left: the class, or its raise; a
\* constructor that repeats a pass of its loop for ever does not return
MadeClass(w, name, modname, c) ==
    IF c.pc = "raised" THEN Throw(w, ErrType(c.err), c.err)
    ELSE IF c.pc # "done" THEN Throw(w, "NoReturn", "no return")
    ELSE Made(w, Obj("MatClass", name, <<>>, <<>>, modname, c.bases, ""))

\* lines 125-132: functions and classes always start with a keyword,
\* anything else is a script file
ParseTokens(w, name, modname, tks) ==
    IF Len(tks) < 1 THEN Throw(w, "IndexError", IndexError)
    ELSE IF tks[1] = Kw("function")
    THEN MadeFunction(w, name, modname,
                      MatFunction(Some(<<name>>), FALSE, tks))
    ELSE IF tks[1] = Kw("classdef")
    THEN MadeClass(w, name, modname, MatClass(<<name>>, tks))
    ELSE Made(w, Obj("MatScript", name, modname, <<>>, <<>>, <<>>, ""))

\* MatObject.parse_mfile(mfile, name, path): read and tokenize the file,
\* and construct what its first token says it is
parse_mfile(w, mfile, name, path) ==
    ParseTokens([w EXCEPT !.reads = Append(w.reads, mfile)], name, path,
                FileTokens(Below(mfile, BaseDir)))

\* (a resolver that looks for the mfile before the folder)
FileOverFolder(isdir, isfile) ==
    IF isfile THEN "mfile" ELSE IF isdir THEN "folder" ELSE "none"

\* package folders imported over mfile with same name
FolderOverFile(isdir, isfile) ==
    IF isdir THEN "folder" ELSE IF isfile THEN "mfile" ELSE "none"

\* MatObject.matlabify(basedir, objname)
matlabify(w, basedir, objname) ==
    IF objname = <<>> THEN Return(w, 0)
    ELSE LET package == objname
             path == Front(objname)
             name == Last(objname)
             fullpath == basedir \o objname
             found == FolderOverFile(IsDir(fullpath), IsMFile(fullpath))
         IN IF found = "folder"
            THEN LET v == MatModuleInit(w, name, fullpath, package)
                 IN Return(v, Newest(v))
            ELSE IF found = "mfile"
            THEN parse_mfile(w, fullpath, name, path)
            ELSE Return(w, 0)

\* mod.path.rsplit(os.sep, len(pkg))[0]: MATLAB base src folder
BasedirOf(mod) ==
    IF Len(mod.path) > Len(mod.package)
    THEN SubSeq(mod.path, 1, Len(mod.path) - Len(mod.package))
    ELSE SubSeq(mod.path, 1, 1)

\* the names between the dots of a text
TextNames(t) ==
    LET parts == Split(t, ".")
    IN [i \in 1..Len(parts) |-> IF parts[i] = <<>> THEN "" ELSE parts[i][1]]

\* MatModule.getter(name) for a name that is none of the special
\* attributes: the member of the package, or None
ModuleGetter(w, mid, member) ==
    LET mod == w.heap[mid]
    IN matlabify(w, BasedirOf(mod), mod.package \o TextNames(member))

\* os.walk(basedir), top down: every order in which the folders can be
\* listed, a folder before its subfolders
ChildDirs(r) == {d \in Dirs : Front(d) = r}
OrdersOf(S) ==
    {p \in [1..Cardinality(S) -> S] :
        \A i, j \in 1..Cardinality(S) : i # j => p[i] # p[j]}
RECURSIVE WalksFrom(_)
WalksFrom(r) ==
    UNION {{<<r>> \o Flatten([i \in 1..Len(p) |-> f[p[i]]]) :
              f \in {g \in [ChildDirs(r) -> UNION {WalksFrom(c) :
                                                     c \in ChildDirs(r)}] :
                        \A c \in ChildDirs(r) : g[c] \in WalksFrom(c)}} :
           p \in OrdersOf(ChildDirs(r))}
Walks == WalksFrom(<<>>)

\* the dirs of a walked folder, in the order of the walk
RECURSIVE DirsIn(_, _)
DirsIn(walk, r) ==
    IF walk = <<>> THEN <<>>
    ELSE (IF Head(walk) # <<>> /\ Front(Head(walk)) = r
          THEN <<Last(Head(walk))>> ELSE <<>>) \o DirsIn(Tail(walk), r)

\* MatClass.__bases__, lines 745-751: the modules among the dirs are asked
\* for the base in turn, and the first that has it binds it
RECURSIVE BaseInModules(_, _, _)
BaseAsked(b, ms, g) ==
    IF g.err # 0 \/ g.ret # 0 THEN g ELSE BaseInModules(g.w, b, ms)

BaseInModules(w, b, ms) ==
    IF ms = <<>> THEN Return(w, 0)
    ELSE IF <<Head(ms)>> \notin DOMAIN w.sysModules
    THEN BaseInModules(w, b, Tail(ms))
    ELSE BaseAsked(b, Tail(ms),
                   ModuleGetter(w, w.sysModules[<<Head(ms)>>], b))

\* line 755: what parse_mfile gave is returned from the middle of the walk
BaseParsed(bound, e) ==
    [w |-> e.w, bound |-> bound, ret |-> e.ret, err |-> e.err]

\* lines 744-755, the bases bs at the folder r of the walk.  The outcome
\* has the world, the bindings so far, and ret: the entity returned from
\* the middle of the walk, 0 when the walk goes on.  g is what the modules
\* among the dirs gave for the first of the bases.
RECURSIVE BasesAt(_, _, _, _, _, _)
BaseTried(bound, basedir, walk, r, bs, g) ==
    IF g.err # 0
    THEN [w |-> g.w, bound |-> bound, ret |-> 0, err |-> g.err]
    ELSE IF /\ g.ret = 0
            /\ bound[Head(bs)] = 0
            /\ Len(Head(bs)) = 1
            /\ IsMFile(basedir \o r \o Head(bs))
    THEN BaseParsed(bound, parse_mfile(g.w, basedir \o r \o Head(bs),
                                       Head(bs)[1], basedir \o r))
    ELSE BasesAt(g.w,
                 IF g.ret # 0 THEN DictSet(bound, Head(bs), g.ret) ELSE bound,
                 basedir, walk, r, Tail(bs))

BasesAt(w, bound, basedir, walk, r, bs) ==
    IF bs = <<>> THEN [w |-> w, bound |-> bound, ret |-> 0, err |-> 0]
    ELSE BaseTried(bound, basedir, walk, r, bs,
                   BaseInModules(w, Head(bs), DirsIn(walk, r)))

\* line 734: the walk goes on to the folders of rest, unless something was
\* returned or raised at the folder before (a)
RECURSIVE BasesWalk(_, _, _, _, _, _)
WalkOn(basedir, walk, rest, bs, a) ==
    IF a.err # 0 \/ a.ret # 0 THEN a
    ELSE BasesWalk(a.w, a.bound, basedir, walk, rest, bs)

BasesWalk(w, bound, basedir, walk, rest, bs) ==
    IF rest = <<>> THEN [w |-> w, bound |-> bound, ret |-> 0, err |-> 0]
    ELSE WalkOn(basedir, walk, Tail(rest), bs,
                BasesAt(w, bound, basedir, walk, Head(rest), bs))

\* the outcome of __bases__: a mapping (isMap, bound), or whatever was
\* returned from the middle of the walk (ret), or a raise
BasesResult(a) ==
    [w |-> a.w, isMap |-> a.err = 0 /\ a.ret = 0, bound |-> a.bound,
     ret |-> a.ret, err |-> a.err]

\* dict.fromkeys(self.bases)
NoneBound(bases) == [b \in {bases[i] : i \in DOMAIN bases} |-> 0]

\* MatClass.__bases__ of the class of identity cid, the folders listed in
\* the order of walk
class_bases(w, cid, walk) ==
    IF w.heap[cid].module \notin DOMAIN w.sysModules
    THEN BasesResult([Throw(w, "KeyError", "KeyError") EXCEPT
                         !.ret = 0] @@ [bound |-> NoneBound(w.heap[cid].bases)])
    ELSE BasesResult(
           BasesWalk(w, NoneBound(w.heap[cid].bases),
                     BasedirOf(w.heap[w.sysModules[w.heap[cid].module]]),
                     walk, walk, w.heap[cid].bases))

\* MatModuleAnalyzer.for_folder(dirname, modname)
for_folder(w, c, dirname, modname) ==
    IF <<"folder", dirname>> \in DOMAIN c
    THEN [w |-> w, cache |-> c, ret |-> c[<<"folder", dirname>>], err |-> 0]
    ELSE LET v == New(w, Obj("MatModuleAnalyzer", "", dirname, <<>>,
                             modname, <<>>, "")
                            @@ [attr_docs |-> None, tagorder |-> None])
         IN [w |-> v, cache |-> DictSet(c, <<"folder", dirname>>, Newest(v)),
             ret |-> Newest(v), err |-> 0]

\* MatModuleAnalyzer.for_module(modname)
for_module(w, c, modname) ==
    IF <<"module", modname>> \in DOMAIN c
    THEN LET entry == c[<<"module", modname>>]
         IN IF w.heap[entry].type = "MatcodeError"
            THEN [w |-> w, cache |-> c, ret |-> 0, err |-> entry]
            ELSE [w |-> w, cache |-> c, ret |-> entry, err |-> 0]
    ELSE IF modname \in DOMAIN w.sysModules
    THEN LET mod == w.heap[w.sysModules[modname]]
             f == for_folder(w, c, mod.path, modname)
         IN [f EXCEPT !.cache = DictSet(f.cache, <<"module", modname>>,
                                        f.ret)]
    ELSE LET t == Throw(w, "MatcodeError", "error importing")
         IN [w |-> t.w, cache |-> DictSet(c, <<"module", modname>>, t.err),
             ret |-> 0, err |-> t.err]

\* the names of the tree in the order of Python's comparison of str
AsciiOrder ==
    <<"Base", "Child", "Derived", "Foo", "Helper", "Other", "Top", "bad", "f",
      "fun", "p", "script", "util">>

\* sorted(S) for a set S of names
SortedNames(S) == LET In(n) == n \in S IN SelectSeq(AsciiOrder, In)

\* os.listdir(path) with the .m of the mfiles trimmed, the folders first
Listing(path) ==
    SortedNames({Last(d) : d \in {e \in Dirs : BaseDir \o Front(e) = path}})
    \o SortedNames({Last(f) :
                      f \in {e \in MFiles : BaseDir \o Front(e) = path}})

Rotate(s, k) == [i \in 1..Len(s) |-> s[((i + k - 1) % Len(s)) + 1]]

\* the orders in which os.listdir gives the entries of a folder: the
\* listing and its reverse, begun at any entry (every order of a folder of
\* up to two entries)
ListOrders(path) ==
    IF Listing(path) = <<>> THEN {<<>>}
    ELSE {Rotate(b, k) : b \in {Listing(path), Reverse(Listing(path))},
                         k \in 0..(Len(Listing(path)) - 1)}

\* MatModule.safe_getmembers, lines 159-174: the keys are asked of getter
\* in turn, a key once; results maps each key to what getter gave for it,
\* when it gave something
RECURSIVE MembersFrom(_, _, _, _)
MemberGot(mid, keys, results, g) ==
    IF g.err # 0 THEN [w |-> g.w, results |-> results, err |-> g.err]
    ELSE MembersFrom(g.w, mid, Tail(keys),
                     IF g.ret # 0 THEN DictSet(results, Head(keys), g.ret)
                     ELSE results)

MembersFrom(w, mid, keys, results) ==
    IF keys = <<>> THEN [w |-> w, results |-> results, err |-> 0]
    ELSE IF Head(keys) \in DOMAIN results
    THEN MembersFrom(w, mid, Tail(keys), results)
    ELSE MemberGot(mid, keys, results, ModuleGetter(w, mid, <<Head(keys)>>))

\* MatModule.safe_getmembers of the module of identity mid, os.listdir
\* giving the keys in the order of listed; results.sort() is the order of
\* the keys
safe_getmembers(w, mid, listed) == MembersFrom(w, mid, listed, EmptyDict)

\* what the constructor left of the mfile a member was parsed from
Parsed(o) ==
    IF o.type = "MatClass"
    THEN MatClass(<<o.name>>, FileTokens(o.module \o <<o.name>>))
    ELSE IF o.type = "MatFunction"
    THEN MatFunction(Some(<<o.name>>), FALSE,
                     FileTokens(o.module \o <<o.name>>))
    ELSE [docstring |-> <<>>]

\* MatClass.getter('__dict__'), lines 776-780: the names of the properties
\* and of the methods, in the order the dict gives them (flipped or not)
DictNames(c, flipped) ==
    LET names == SortedNames({k[1] : k \in DOMAIN c.properties
                                       \cup DOMAIN c.methods})
        order == IF flipped THEN Reverse(names) ELSE names
    IN [i \in 1..Len(order) |-> <<order[i]>>]

\* MatProperty.__init__ reads attrs['default']
PropertiesMade(c) ==
    \A k \in DOMAIN c.properties : "default" \in c.properties[k].keys

\* the docstring of an item of __dict__: objdict.update(self.methods)
ItemDoc(c, mk) ==
    IF mk \in DOMAIN c.methods THEN Some(c.methods[mk].docstring)
    ELSE c.properties[mk].docstring

\* lines 912-914 and 918-920: an entry is recorded under (namespace, name)
\* and the name is given the next tag number
Collected(d, namespace, name, doc) ==
    [d EXCEPT !.attr_docs = DictSet(d.attr_docs, <<namespace, name>>, doc),
              !.tagorder = DictSet(d.tagorder, name, d.tagnumber),
              !.tagnumber = d.tagnumber + 1,
              !.found = Append(d.found, <<namespace, name>>)]

\* lines 916-920: the items of the class's __dict__
RECURSIVE ClassCollected(_, _, _, _)
ClassCollected(d, namespace, c, mks) ==
    IF mks = <<>> THEN d
    ELSE ClassCollected(Collected(d, namespace, Head(mks),
                                  ItemDoc(c, Head(mks))),
                        namespace, c, Tail(mks))

\* lines 912-920 for the member k, the object o of the module: a MatModule
\* has no docstring
MemberCollected(d, package, k, o, c, flipped) ==
    IF o.type = "MatModule" THEN [d EXCEPT !.err = "AttributeError"]
    ELSE IF o.type # "MatClass"
    THEN Collected(d, package, <<k>>, Some(c.docstring))
    ELSE IF ~PropertiesMade(c)
    THEN [Collected(d, package, <<k>>, Some(c.docstring)) EXCEPT
             !.err = "KeyError"]
    ELSE ClassCollected(Collected(d, package, <<k>>, Some(c.docstring)),
                        package \o <<k>>, c, DictNames(c, flipped))

\* line 911: the loop over the members, in the order of their keys
RECURSIVE MembersCollected(_, _, _, _, _, _)
MembersCollected(d, h, package, results, ks, flipped) ==
    IF ks = <<>> \/ d.err # "" THEN d
    ELSE MembersCollected(
           MemberCollected(d, package, Head(ks), h[results[Head(ks)]],
                           Parsed(h[results[Head(ks)]]), flipped),
           h, package, results, Tail(ks), flipped)

\* lines 906-908
NothingCollected ==
    [attr_docs |-> EmptyDict, tagorder |-> EmptyDict, tagnumber |-> 0,
     found |-> <<>>, err |-> ""]

\* lines 921-923: the maps are stored in the analyzer and the docstring
\* map is returned, unless the walk raised
Stored(w, aid, d) ==
    IF d.err # ""
    THEN Throw(w, d.err, d.err) @@ [docs |-> None, found |-> <<>>]
    ELSE [w |-> [w EXCEPT !.heap[aid].attr_docs = Some(d.attr_docs),
                          !.heap[aid].tagorder = Some(d.tagorder)],
          ret |-> 0, err |-> 0, docs |-> Some(d.attr_docs),
          found |-> d.found]

\* lines 909-920, m what safe_getmembers gave
Walked(aid, package, flipped, m) ==
    IF m.err # 0
    THEN [w |-> m.w, ret |-> 0, err |-> m.err, docs |-> None,
          found |-> <<>>]
    ELSE Stored(m.w, aid,
                MembersCollected(NothingCollected, m.w.heap, package,
                                 m.results, SortedNames(DOMAIN m.results),
                                 flipped))

\* MatModuleAnalyzer.find_attr_docs of the analyzer of identity aid: docs
\* is the docstring map it returns, the one kept from a walk before or
\* the one of this walk, and found the entries in the order they were
\* recorded by this walk
find_attr_docs(w, aid, listed, flipped) ==
    IF w.heap[aid].attr_docs.some
    THEN [w |-> w, ret |-> 0, err |-> 0, docs |-> w.heap[aid].attr_docs,
          found |-> <<>>]
    ELSE IF w.heap[aid].module \notin DOMAIN w.sysModules
    THEN Throw(w, "KeyError", "KeyError") @@ [docs |-> None, found |-> <<>>]
    ELSE Walked(aid, w.heap[w.sysModules[w.heap[aid].module]].package,
                flipped,
                safe_getmembers(w, w.sysModules[w.heap[aid].module], listed))

-----------------------------------------------------------------------------
(* The resolver: any sequence of up to MaxOps lookups on the source tree   *)

MaxOps == 4

\* the names asked for: folders, mfiles, a name of both, a name of
\* neither, no name
ObjNames ==
    {<<>>, <<"pkg">>, <<"pkg", "Foo">>, <<"pkg", "Base">>,
     <<"pkg", "Derived">>, <<"pkg", "Child">>, <<"pkg", "fun">>,
     <<"pkg", "bad">>, <<"pkg", "script">>, <<"pkg", "nothing">>,
     <<"a", "util">>, <<"b", "util">>}
Members == {<<"Foo">>, <<"bad">>, <<"nothing">>}
ModNames == {<<"pkg">>, <<"util">>, <<"a", "util">>}

World == [heap |-> heap, sysModules |-> sysModules, reads |-> <<>>]

Ids(type) == {i \in DOMAIN heap : heap[i].type = type}

\* the history: the number of operations, what matlabify gave for each
\* name the first time, the first MatModule made for each package, the
\* first failure of for_module for each name
RECURSIVE FirstModules(_, _, _)
FirstModules(bound, h, i) ==
    IF i > Len(h) THEN bound
    ELSE FirstModules(IF h[i].type = "MatModule"
                         /\ h[i].package \notin DOMAIN bound
                      THEN DictSet(bound, h[i].package, i) ELSE bound,
                      h, i + 1)

Remember(w) ==
    [hist EXCEPT !.n = hist.n + 1,
                 !.bound = FirstModules(hist.bound, w.heap, Len(heap) + 1)]

\* the objects the caller holds: what the operations returned to it, and
\* the modules of sys.modules
Hold(h, ids) == [h EXCEPT !.held = @ \cup (ids \ {0})]
Held == hist.held \cup {sysModules[k] : k \in DOMAIN sysModules}

InitResolver ==
    /\ src = Idle
    /\ tokens = <<>>
    /\ fn = Idle
    /\ cp = Idle
    /\ heap = <<>>
    /\ sysModules = EmptyDict
    /\ cache = EmptyDict
    /\ last = Idle
    /\ hist = [n |-> 0, first |-> EmptyDict, bound |-> EmptyDict,
               failed |-> EmptyDict, held |-> {}]

\* MatObject.matlabify(matlab_src_dir, objname)
Matlabify(objname) ==
    /\ hist.n < MaxOps
    /\ \E r \in {matlabify(World, BaseDir, objname)} :
          /\ heap' = r.w.heap
          /\ sysModules' = r.w.sysModules
          /\ last' = [op |-> "matlabify", arg |-> objname, ret |-> r.ret,
                      err |-> r.err, reads |-> r.w.reads,
                      again |-> objname \in DOMAIN hist.first]
          /\ hist' = Hold([Remember(r.w) EXCEPT !.first =
                              IF objname \in DOMAIN hist.first
                              THEN hist.first
                              ELSE DictSet(hist.first, objname,
                                           [ret |-> r.ret, err |-> r.err])],
                           {r.ret})
    /\ UNCHANGED <<src, tokens, fn, cp, cache>>

\* mod.getter(member)
Getter(mid, member) ==
    /\ hist.n < MaxOps
    /\ mid \in Ids("MatModule") \cap Held
    /\ \E r \in {ModuleGetter(World, mid, member)} :
          /\ heap' = r.w.heap
          /\ sysModules' = r.w.sysModules
          /\ last' = [op |-> "getter",
                      arg |-> heap[mid].package \o TextNames(member),
                      ret |-> r.ret, err |-> r.err, reads |-> r.w.reads]
          /\ hist' = Hold(Remember(r.w), {r.ret})
    /\ UNCHANGED <<src, tokens, fn, cp, cache>>

\* MatModuleAnalyzer.for_module(modname)
ForModule(modname) ==
    /\ hist.n < MaxOps
    /\ \E r \in {for_module(World, cache, modname)} :
          /\ heap' = r.w.heap
          /\ sysModules' = r.w.sysModules
          /\ cache' = r.cache
          /\ last' = [op |-> "for_module", arg |-> modname, ret |-> r.ret,
                      err |-> r.err, reads |-> r.w.reads,
                      again |-> modname \in DOMAIN hist.failed]
          /\ hist' = Hold([Remember(r.w) EXCEPT !.failed =
                              IF r.err = 0 \/ modname \in DOMAIN hist.failed
                              THEN hist.failed
                              ELSE DictSet(hist.failed, modname, r.err)],
                           {r.ret})
    /\ UNCHANGED <<src, tokens, fn, cp>>

\* cls.__bases__
Bases(cid, walk) ==
    /\ hist.n < MaxOps
    /\ cid \in Ids("MatClass") \cap Held
    /\ \E r \in {class_bases(World, cid, walk)} :
          /\ heap' = r.w.heap
          /\ sysModules' = r.w.sysModules
          /\ last' = [op |-> "bases", arg |-> cid, ret |-> r.ret,
                      err |-> r.err, reads |-> r.w.reads,
                      isMap |-> r.isMap, bound |-> r.bound]
          /\ hist' = Hold(Remember(r.w),
                           IF r.isMap
                           THEN {r.bound[b] : b \in DOMAIN r.bound}
                           ELSE {r.ret})
    /\ UNCHANGED <<src, tokens, fn, cp, cache>>

\* the folder safe_getmembers lists for the analyzer of identity aid
ListedPath(aid) ==
    IF heap[aid].module \in DOMAIN sysModules
    THEN heap[sysModules[heap[aid].module]].path
    ELSE <<>>

\* analyzer.find_attr_docs(), os.listdir giving the entries in the order
\* of listed
FindAttrDocs(aid, listed, flipped) ==
    /\ hist.n < MaxOps
    /\ aid \in Ids("MatModuleAnalyzer") \cap Held
    /\ \E r \in {find_attr_docs(World, aid, listed, flipped)} :
          /\ heap' = r.w.heap
          /\ sysModules' = r.w.sysModules
          /\ last' = [op |-> "find_attr_docs", arg |-> aid, ret |-> r.ret,
                      err |-> r.err, reads |-> r.w.reads, docs |-> r.docs,
                      found |-> r.found,
                      before |-> [attr_docs |-> heap[aid].attr_docs,
                                  tagorder |-> heap[aid].tagorder]]
          /\ hist' = Hold(Remember(r.w), {})
    /\ UNCHANGED <<src, tokens, fn, cp, cache>>

NextResolver ==
    \/ \E objname \in ObjNames : Matlabify(objname)
    \/ \E mid \in DOMAIN heap, member \in Members : Getter(mid, member)
    \/ \E modname \in ModNames : ForModule(modname)
    \/ \E cid \in DOMAIN heap, walk \in Walks : Bases(cid, walk)
    \/ \E aid \in DOMAIN heap, flipped \in BOOLEAN :
          \E listed \in ListOrders(ListedPath(aid)) :
             FindAttrDocs(aid, listed, flipped)

SpecResolver == InitResolver /\ [][NextResolver]_vars

-----------------------------------------------------------------------------
(* Properties of the function parser *)

\* the names a list attribute holds; None holds none
Names(opt) == IF opt.some THEN opt.val ELSE <<>>

\* the number of tokens the parse took for the function: all but the
\* tokens left, or what reset_tokens returned
Consumed ==
    IF fn.pc = "reset" THEN fn.ret ELSE Len(tokens) - Len(fn.obj.rem.val)

\* C1: with the pair count starting at 1, raised by if/while/for/switch/try
\* and lowered by every `end` not right after `:` or `(`, a body made of
\* statements, once-nested if blocks and index uses a(end), a(1:end) is
\* consumed up to and including the function's own `end`, and no further:
\* the tokens taken are exactly those up to that `end`.
BodyScanEndsAtOwnEnd ==
    fn.pc \in {"built", "reset"} =>
        /\ tokens[OwnEnd(src)] = Kw("end")
        /\ Consumed = OwnEnd(src)
        /\ fn.pc = "built" =>
              Reverse(fn.obj.rem.val)
                  = SubSeq(tokens, OwnEnd(src) + 1, Len(tokens))

\* C1 witness: a body with an if block around a(1:end), then a(end), was
\* scanned, and tokens follow the function's own `end`
BodyScanWitness ==
    /\ fn.pc = "built"
    /\ src.items = <<"ifrng", "idx">>
    /\ Len(src.trailer) > 1

\* C9: for every valid signature (outputs and inputs, no output list,
\* empty parentheses, no parentheses) the parse succeeds and the return and
\* input name lists are the declared names in order, none when none is
\* declared.
SignatureListsParsed ==
    fn.pc # "init" /\ (src.isMethod \/ src.sigName = src.decl) =>
        /\ fn.obj.err = ""
        /\ Names(fn.obj.retv) = src.outs
        /\ Names(fn.obj.args) = src.ins

\* C10: when the signature's name differs from the declared one, a method
\* parse takes the text of the signature's name token as the method's name,
\* and a function parse raises the unexpected-name error.
NameMismatchHandled ==
    fn.pc # "init" /\ (src.isMethod \/ src.sigName # src.decl) =>
        IF src.isMethod
        THEN /\ fn.obj.err # UnexpectedName
             /\ fn.obj.err = "" => fn.obj.name = Some(<<src.sigName>>)
        ELSE fn.pc = "raised" /\ fn.obj.err = UnexpectedName

-----------------------------------------------------------------------------
(* Properties of the class parser *)

\* C2: whenever a method has been parsed in a methods block, the cursor was
\* put on the token right after the method's terminating `end` (it moved
\* from the start of the slice by the slice's length less the leftover's),
\* and every method stored keeps exactly the tokens of its declaration and
\* no leftover.
MethodTrimmedToItsEnd ==
    cp.mcur > 0 =>
        /\ [first |-> cp.mstart, last |-> cp.mcur - 1] \in MethodSpans(src)
        /\ tokens[cp.mcur - 1] = Kw("end")
        /\ \A k \in DOMAIN cp.methods :
              /\ cp.methods[k].rem_tks = None
              /\ \E sp \in MethodSpans(src) :
                    cp.methods[k].tokens = SubSeq(tokens, sp.first, sp.last)

\* C2 witness: two methods of one block were parsed, the second after an
\* if block in the first, and the class was parsed to its end
MethodTrimWitness ==
    /\ cp.pc = "done"
    /\ Len(src.blocks) = 1
    /\ Len(src.blocks[1].meths) = 2
    /\ src.blocks[1].meths[1].items = <<"if">>
    /\ Cardinality(DOMAIN cp.methods) = 2
    /\ cp.mcur > 0

\* C6: no pass of the loop over the class body ends where it began, so the
\* cursor keeps advancing until the closing `end`, also past a token that
\* is neither whitespace, a comment, `properties` nor `methods`.
BodyLoopAdvances == cp.pc = "body" => ~cp.spin

-----------------------------------------------------------------------------
(* Properties of the resolver *)

Entities == {"MatModule", "MatFunction", "MatClass", "MatScript"}

\* C3: resolving a dotted name that gave an object before gives that same
\* object again, and reads no file
ResolvedOnce ==
    last.op = "matlabify" /\ last.again /\ hist.first[last.arg].ret # 0 =>
        /\ last.ret = hist.first[last.arg].ret
        /\ last.reads = <<>>

\* C4: the registry is append-only and a package is one entry: the Module
\* first made for a package is in the registry ever after
RegistryAppendOnly ==
    \A p \in DOMAIN hist.bound :
        \E k \in DOMAIN sysModules : sysModules[k] = hist.bound[p]

\* C5: the bases of a class, whose module is registered, are a mapping of
\* exactly the declared base names, each to its entity or to None
BasesMapDeclared ==
    last.op = "bases"
      /\ ~(last.err # 0 /\ heap[last.err].type = "KeyError") =>
        /\ last.err = 0
        /\ last.isMap
        /\ DOMAIN last.bound =
             {heap[last.arg].bases[i] : i \in DOMAIN heap[last.arg].bases}
        /\ \A b \in DOMAIN last.bound :
              last.bound[b] # 0 =>
                  /\ heap[last.bound[b]].type \in Entities
                  /\ <<heap[last.bound[b]].name>> = b

\* C7: a name that is both a folder and an mfile resolves to the Module of
\* the folder, and the mfile is not read
FolderNotMfile ==
    last.op \in {"matlabify", "getter"}
      /\ IsDir(BaseDir \o last.arg) /\ IsMFile(BaseDir \o last.arg) =>
        /\ last.err = 0
        /\ last.ret \in Ids("MatModule")
        /\ heap[last.ret].path = BaseDir \o last.arg
        /\ last.reads = <<>>

FolderNotMfileWitness ==
    /\ last.op = "matlabify"
    /\ last.arg = <<"pkg", "Foo">>
    /\ BaseDir \o last.arg \in {BaseDir \o f : f \in MFiles}
    /\ last.ret \in Ids("MatModule")

\* C8: a failed lookup is stored and raised again, the same object, without
\* a read; and a resolution that fails raises a MatcodeError
FailureStoredAndWrapped ==
    /\ last.op = "for_module" /\ last.again =>
          last.err = hist.failed[last.arg] /\ last.reads = <<>>
    /\ last.op \in {"matlabify", "getter"} /\ last.err # 0 =>
          heap[last.err].type = "MatcodeError"
    /\ last.op = "matlabify" /\ last.again
         /\ hist.first[last.arg].err # 0 =>
          last.err = hist.first[last.arg].err /\ last.reads = <<>>

-----------------------------------------------------------------------------
(* Properties of the class parser: the signature and the attribute lists *)

\* C11: once the signature is parsed, bases is the list of the declared
\* base names in their order, whatever blanks stand around the `&`
BasesAsDeclared ==
    cp.pc \notin {"classdef", "raised"} =>
        cp.bases = [i \in 1..Len(src.bases) |-> <<src.bases[i]>>]

\* the attribute lists declared with their tables, and where the parser
\* stores what it read: the list of the class, and the list of each block

\* the place of the keyword of block n in the tokens
BlockPlace(d, n) ==
    Len(ClassSigTokens(d))
      + Len(PieceTokens(Flatten([m \in 1..(n - 1) |->
                                    BlockPieces(d.blocks[m])])))
      + 2

\* the place of the name of entry i of a list behind the keyword at kw
EntryPlace(kw, es, i) ==
    kw + 1 + (IF i = 1 THEN 2 ELSE Len(AttrTokens(SubSeq(es, 1, i - 1))) + 1)

TableOf(kind) == IF kind = "properties" THEN prop_attr_types
                 ELSE meth_attr_types

\* the value of a cell array: the list of its values
ValueList(vals) == [i \in 1..Len(vals) |-> <<vals[i]>>]

\* every entry `Name = { v1 v2 }` of the list es is in the dictionary as
\* the list of its values
CellsListed(es, attr_dict) ==
    \A i \in DOMAIN es :
        (/\ es[i].form = "cell" /\ es[i].vals # <<>>
         /\ \A j \in DOMAIN es : j > i => es[j].name # es[i].name)
        => /\ T(es[i].name) \in DOMAIN attr_dict
           /\ attr_dict[T(es[i].name)].kind = "list"
           /\ attr_dict[T(es[i].name)].s = ValueList(es[i].vals)

Recognized(es, attr_types) == \A i \in DOMAIN es : T(es[i].name) \in attr_types

\* C12: an attribute list of recognized entries is parsed without an
\* error, and each entry `Name = { v1 v2 ... }` maps Name to the list of
\* its values in source order, in the list of the class, of a properties
\* block and of a methods block
CellValuesListed ==
    /\ (cp.pc # "classdef" /\ Recognized(src.attrs, cls_attr_types))
         => /\ cp.err # AttributeError
            /\ CellsListed(src.attrs, cp.attrs)
    /\ \A n \in DOMAIN src.blocks :
         (/\ src.blocks[n].kind \in {"properties", "methods"}
          /\ Recognized(src.blocks[n].attrs, TableOf(src.blocks[n].kind))
          /\ cp.pc = "done")
         => /\ \A q \in DOMAIN src.blocks[n].props :
                 CellsListed(src.blocks[n].attrs,
                             cp.properties[T(src.blocks[n].props[q].name)].attrs)
            /\ src.blocks[n].meths # <<>> =>
                 \A k \in DOMAIN cp.methods :
                     CellsListed(src.blocks[n].attrs, cp.methods[k].attrs)

\* the first entry of the list es whose name is not in the table, 0 for
\* none
FirstUnknown(es, attr_types) ==
    IF Recognized(es, attr_types) THEN 0
    ELSE CHOOSE i \in DOMAIN es :
            /\ T(es[i].name) \notin attr_types
            /\ \A j \in 1..(i - 1) : T(es[j].name) \in attr_types

\* the parse was abandoned with UnknownAttribute at the place `at`
RaisedUnknownAt(at) ==
    cp.pc = "raised" /\ cp.err = UnknownAttribute /\ cp.idx = at

\* the block whose attribute list the parser read last: the block before
\* the cursor that begins last
BlockRead(n) ==
    /\ BlockPlace(src, n) < cp.idx
    /\ \A m \in DOMAIN src.blocks : m > n => BlockPlace(src, m) >= cp.idx

\* C13: an entry whose name is not in the table of its context makes the
\* parse fail with UnknownAttribute at that entry, whatever entries
\* precede it, in the list of the class and in the list of a properties or
\* methods block; no class is constructed
UnknownAttributeRaises ==
    /\ (cp.pc # "classdef" /\ ~Recognized(src.attrs, cls_attr_types))
         => RaisedUnknownAt(EntryPlace(1, src.attrs,
                                FirstUnknown(src.attrs, cls_attr_types)))
    /\ \A n \in DOMAIN src.blocks :
         (/\ src.blocks[n].kind \in {"properties", "methods"}
          /\ ~Recognized(src.blocks[n].attrs, TableOf(src.blocks[n].kind))
          /\ cp.pc \notin {"classdef", "body"}
          /\ BlockRead(n))
         => RaisedUnknownAt(
              EntryPlace(BlockPlace(src, n), src.blocks[n].attrs,
                         FirstUnknown(src.blocks[n].attrs,
                                      TableOf(src.blocks[n].kind))))

\* the text of the first comment line of the docstring and its newline
FirstDocLine == <<SP, "help", NL>>

\* C16: when a comment follows the newline of the signature, the parse
\* fails with UnindentedComment if nothing stands before the comment; if
\* blanks or tabs stand before it the parse does not fail with
\* UnindentedComment and the docstring begins with the comment's text
UnindentedCommentRaises ==
    (cp.pc # "classdef" /\ src.doc >= 1) =>
        IF src.indent[1] = <<>>
        THEN cp.pc = "raised" /\ cp.err = UnindentedComment
        ELSE /\ cp.err # UnindentedComment
             /\ Len(cp.docstring) >= Len(FirstDocLine)
             /\ SubSeq(cp.docstring, 1, Len(FirstDocLine)) = FirstDocLine

UnindentedCommentWitness ==
    /\ cp.pc = "raised" /\ cp.err = UnindentedComment
    /\ src.doc >= 1 /\ src.indent[1] = <<>> /\ src.bases # <<>>

-----------------------------------------------------------------------------
(* Properties of the class parser: the blocks *)

\* the properties declared under the name of property q of block n
SameName(n, q) ==
    {<<m, r>> \in {<<m, r>> \in (DOMAIN src.blocks) \X (1..MaxProps + 1) :
                      /\ src.blocks[m].kind = "properties"
                      /\ r \in DOMAIN src.blocks[m].props} :
        src.blocks[m].props[r].name = src.blocks[n].props[q].name}

\* the record of a property declared as q in a block of attribute list es
PropertyAsDeclared(q, es, rec) ==
    /\ rec.keys = {"attrs", "default", "docstring"}
    /\ DOMAIN rec.attrs = {T(es[i].name) : i \in DOMAIN es}
    /\ rec.default = IF q.eq /\ q.default # <<>>
                     THEN Some(ConcatText(q.default, 1, Len(q.default) + 1))
                     ELSE None
    /\ rec.docstring = IF q.doc THEN Some(<<SP, "about">>) ELSE None

\* C18: after a successful parse every property declared in a properties
\* block has one record under its name, with attrs the attributes of the
\* block, default the text after `=` (null with no `=` or with nothing
\* after it) and docstring the text of the comment on the same line (null
\* with none, whatever comment stands on a later line)
PropertiesRecorded ==
    cp.pc = "done" =>
        \A n \in DOMAIN src.blocks :
            src.blocks[n].kind = "properties" =>
                \A q \in DOMAIN src.blocks[n].props :
                    SameName(n, q) = {<<n, q>>} =>
                        /\ T(src.blocks[n].props[q].name) \in DOMAIN cp.properties
                        /\ PropertyAsDeclared(
                             src.blocks[n].props[q], src.blocks[n].attrs,
                             cp.properties[T(src.blocks[n].props[q].name)])

\* the cursor at the head of the loop over a block comes to the block's
\* `end` when whitespace and comments are skipped
AtBlockEnd ==
    /\ cp.pc \in {"properties", "methods"}
    /\ SkipEnd(tokens, cp.idx) <= Len(tokens)
    /\ tokens[SkipEnd(tokens, cp.idx)] = Kw("end")

\* C19: in a properties or methods block, when skipping whitespace and
\* comments brings the cursor to the block's `end`, the block ends there:
\* nothing is raised, no property or method is added, and the cursor is
\* just past the `end`, in the loop over the body of the class
BlockEndsAtItsEnd ==
    [][AtBlockEnd =>
         /\ cp'.pc = "body"
         /\ cp'.idx = SkipEnd(tokens, cp.idx) + 1
         /\ cp'.properties = cp.properties
         /\ cp'.methods = cp.methods]_vars

-----------------------------------------------------------------------------
(* The specification of parse_mfile: an mfile that holds a function, a     *)
(* class or a script, after up to MaxLead lines that are empty, blank or   *)
(* of comment                                                              *)

MaxLead == 2

LeadLines ==
    {<<Txt(NL)>>, <<Txt(SP), Txt(NL)>>,
     <<Tk("Comment", <<"%", SP, "header">>), Txt(NL)>>}

MfileDecls ==
    [name : {"f"}, lead : SeqsUpTo(LeadLines, MaxLead),
     kind : {"function", "classdef", "script"}, variant : 1..2]

MfileBody(d) ==
    CASE d.kind = "function" ->
           FunctionFile(d.name, d.name,
                        IF d.variant = 1 THEN "bare" ELSE "brackets",
                        FirstNames(1))
      [] d.kind = "classdef" ->
           ClassFile(d.name, IF d.variant = 1 THEN <<>> ELSE <<"B">>)
      [] d.kind = "script" ->
           IF d.variant = 1 THEN <<Name("x"), Txt(NL)>>
           ELSE <<Kw("for"), Txt(SP), Name("x"), Txt(NL), Kw("end"), Txt(NL)>>

MfileTokens(d) == Flatten(d.lead) \o MfileBody(d)

InitMfile ==
    /\ src \in MfileDecls
    /\ tokens = MfileTokens(src)
    /\ fn = Idle
    /\ cp = Idle
    /\ heap = <<>>
    /\ sysModules = EmptyDict
    /\ cache = EmptyDict
    /\ last = Idle
    /\ hist = <<>>

\* MatObject.parse_mfile(mfile, name, path) on the file whose tokens are
\* `tokens`
ParseMfile ==
    /\ last = Idle
    /\ \E r \in {ParseTokens(World, src.name, <<"pkg">>, tokens)} :
          /\ heap' = r.w.heap
          /\ last' = [op |-> "parse_mfile", ret |-> r.ret, err |-> r.err]
    /\ UNCHANGED <<src, tokens, fn, cp, sysModules, cache, hist>>

NextMfile == ParseMfile

SpecMfile == InitMfile /\ [][NextMfile]_vars

\* the type of the object for each kind of file
TypeOfKind(kind) ==
    CASE kind = "function" -> "MatFunction"
      [] kind = "classdef" -> "MatClass"
      [] kind = "script" -> "MatScript"

\* C15: a file is classified by its first token that is neither whitespace
\* nor a comment: `function` gives a function, `classdef` a class, anything
\* else a script, whatever empty or comment lines stand before it
ClassifiedBySignificantToken ==
    last.op = "parse_mfile" =>
        /\ last.err = 0
        /\ last.ret \in DOMAIN heap
        /\ heap[last.ret].type = TypeOfKind(src.kind)

-----------------------------------------------------------------------------
(* Properties of the resolver: the bases of a class *)

\* the registered module of identity mid resolves the name b as a member
CanResolve(mid, b) == ModuleGetter(World, mid, b).ret # 0

RegisteredResolvers(b) ==
    {sysModules[k] : k \in {n \in DOMAIN sysModules :
                               CanResolve(sysModules[n], b)}}

\* the entity e is what a registered module gives for its member b
ModuleResult(e, b) ==
    \E mid \in RegisteredResolvers(b) :
        /\ <<heap[e].name>> = b
        /\ heap[e].type = "MatModule" \/ heap[e].module = heap[mid].package

\* C17: a declared base that a registered module resolves as a member is
\* bound to what that module gives; the file of that name found by the
\* walk is parsed and returned only for a base that no registered module
\* resolves, wherever the file lies in the tree
ModuleBeforeFile ==
    (last.op = "bases" /\ last.err = 0) =>
        \A i \in DOMAIN heap[last.arg].bases :
            RegisteredResolvers(heap[last.arg].bases[i]) # {} =>
                /\ ~(/\ last.ret # 0
                     /\ <<heap[last.ret].name>> = heap[last.arg].bases[i])
                /\ last.isMap =>
                     /\ last.bound[heap[last.arg].bases[i]] # 0
                     /\ ModuleResult(last.bound[heap[last.arg].bases[i]],
                                     heap[last.arg].bases[i])

-----------------------------------------------------------------------------
(* Properties of the analyzer: the walk over the members of a module *)

\* the index the order map holds for a recorded entry, -1 when it holds
\* none
TagOf(aid, entry) ==
    IF entry[2] \in DOMAIN heap[aid].tagorder.val
    THEN heap[aid].tagorder.val[entry[2]]
    ELSE -1

\* C14: after a walk of find_attr_docs that returned, the entries of the
\* docstring map are the entries recorded, every entry has an index in the
\* order map, and the indices strictly increase in the order the entries
\* were recorded (so no two entries share one); and a call on an analyzer
\* that has walked before leaves the docstring map and the order map as
\* they were and returns that docstring map.
EntriesIndexedInOrder ==
    last.op = "find_attr_docs" /\ last.err = 0 =>
        IF last.before.attr_docs.some
        THEN /\ heap[last.arg].attr_docs = last.before.attr_docs
             /\ heap[last.arg].tagorder = last.before.tagorder
             /\ last.docs = last.before.attr_docs
        ELSE /\ last.docs = heap[last.arg].attr_docs
             /\ DOMAIN heap[last.arg].attr_docs.val
                  = {last.found[i] : i \in DOMAIN last.found}
             /\ \A i \in DOMAIN last.found :
                   TagOf(last.arg, last.found[i]) >= 0
             /\ \A i, j \in DOMAIN last.found :
                   i < j => TagOf(last.arg, last.found[i])
                              < TagOf(last.arg, last.found[j])

=============================================================================
